---- MODULE Spec2Model ----
(***************************************************************************)
(* Model of the per-source inference pipeline of the Triton video client:  *)
(* the bounded frame queue (inference/queue.rs), the source processor      *)
(* (inference/source.rs) and the batched gateway call (inference.rs).      *)
(***************************************************************************)
EXTENDS Integers, Sequences, FiniteSets, TLC

\* Bounds of the model.  The queue capacity and the size of the permit pool are
\* 5 and 5 in inference/source.rs (lines 25-26); the model is parametric in both
\* and is checked with small values, like the other bounds.
MAX_QUEUE_FRAMES == 2
MAX_PARALLEL_FRAME_PROCESSING == 2
MaxFrames == 3   \* calls of process_frame made by the decoder
MaxItems == 4    \* items offered by the stand-alone queue producers
MaxStride == 2   \* largest configured inf_frame
MaxInputs == 4   \* raw inputs handed to one call of infer
MaxBatch == 2    \* largest configured batch_max_size
OutputSize == 2  \* output_size_per_sample, in bytes
MaxSources == 2  \* configured sources
MaxSupCalls == 3 \* calls of the supervisor's initialisation functions
MaxDetections == 3  \* detections handed to one call of bbox_nms
MaxAnchors == 2  \* anchors of the declared output shape
MaxClasses == 2  \* classes of the declared output shape
MaxDim == 3      \* height and width of the small frames

VARIABLES
    queue,           \* VecDeque<T> behind the tokio Mutex
    lockHolder,      \* thread holding the Mutex, or "none"
    lockWaiters,     \* threads queued in Mutex::lock().await (FIFO hand-off)
    notifyPermit,    \* the permit a Notify stores when notify_one finds no waiter
    pc,              \* position of every thread
    item,            \* item a thread carries (being sent / just received)
    permits,         \* available permits of the parallelism Semaphore
    tasks,           \* spawned per-frame tasks: frame |-> position
    frames_total, frames_success, frames_failed,   \* SourceStats counters
    time_sums,       \* SourceStats running time sums (total_*_time)
    inf_frame,       \* source_config.inf_frame
    calls,           \* number of process_frame / producer calls made so far
    admitted,        \* history: per process_frame call, did it offer the frame
    pushed,          \* history: items pushed (push_back), in order
    dropped,         \* history: items handed to the drop callback, in order
    received,        \* history: items returned by recv, in order
    contended,       \* history: items whose send_sync found the lock held
    failCount,       \* history: per frame, frames_failed increments made for it
    succCount,       \* history: per frame, frames_success increments made for it
    wasReset,        \* history: the reporter has reset the counters at least once
    raw_inputs,      \* infer: the inputs of the call, one sample each
    max_batch_size,  \* infer: model_config.batch_max_size
    inferPc,         \* infer: position of the call
    chunkTasks,      \* infer: chunk_idx |-> the task spawned for the chunk
    completed,       \* infer: chunk indices in the order their tasks completed
    all_results,     \* infer: the pre-allocated result slots
    INFERENCE_MODELS,  \* OnceCell<HashMap<InferenceModelType, Arc<InferenceModel>>>
    PROCESSORS,      \* RwLock<HashMap<String, Arc<SourceProcessor>>>
    clients,         \* the InferenceModel instances created so far, with their stats thread
    app_config,      \* the configured sources and model types
    sup,             \* the supervisor: the initialisation function under way and its locals
    codecPc,         \* codec: position of the call of preprocess / postprocess / bbox_nms
    frame,           \* codec: the RawFrame (height, width, data.len())
    precision,       \* codec: model_config.precision
    raw_results,     \* codec: the raw output handed to postprocess
    output_shape,    \* codec: model_config.output_shape
    pred_conf_threshold,  \* codec: source_config.conf_threshold
    nms_threshold,   \* codec: source_config.nms_iou_threshold
    candidates,      \* codec history: the detections handed to bbox_nms, as sorted
    detections,      \* codec: Vec<ResultBBOX> under construction
    decoded,         \* codec history: anchors decoded by postprocess
    codecResult,     \* codec: what the call returned
    pre_frame,       \* codec: the tensor preprocess built
    letterbox,       \* codec: a coordinate carried through the letterbox and back
    reads,           \* codec history: the element indices postprocess has read
    crop,            \* codec: the call of preprocess_bboxes (boxes, results, bytes read)
    frames_expected, \* SourceStats counter, kept by the stats specification only
    report,          \* history: the reporter's ticks, records emitted, the last record,
                     \* and the frames_success of all records together
    publisher,       \* the calls of populate_bboxes / populate_embedding, and the last one
    stream           \* video player: the source monitor, its session and the backend

queueVars == <<queue, lockHolder, lockWaiters, notifyPermit>>
statVars == <<frames_total, frames_success, frames_failed, time_sums>>
histVars == <<admitted, pushed, dropped, received, contended, failCount, succCount,
              wasReset>>
supervisorVars == <<INFERENCE_MODELS, PROCESSORS, clients, app_config, sup>>
codecVars == <<codecPc, frame, precision, raw_results, output_shape, pred_conf_threshold,
               nms_threshold, candidates, detections, decoded, codecResult, pre_frame,
               letterbox, reads, crop>>
reportVars == <<frames_expected, report>>
inferVars == <<raw_inputs, max_batch_size, inferPc, chunkTasks, completed, all_results,
               supervisorVars, codecVars, reportVars, publisher, stream>>
vars == <<queue, lockHolder, lockWaiters, notifyPermit, pc, item, permits, tasks,
          frames_total, frames_success, frames_failed, time_sums,
          inf_frame, calls,
          admitted, pushed, dropped, received, contended, failCount, succCount,
          wasReset,
          raw_inputs, max_batch_size, inferPc, chunkTasks, completed, all_results,
          INFERENCE_MODELS, PROCESSORS, clients, app_config, sup,
          codecPc, frame, precision, raw_results, output_shape, pred_conf_threshold,
          nms_threshold, candidates, detections, decoded, codecResult, pre_frame,
          letterbox, reads, crop, frames_expected, report, publisher, stream>>

Threads == {"dec", "wrk", "rep", "ps", "pa", "cons"}
Ids == 1..(MaxFrames + MaxItems + 2)

Max(a, b) == IF a > b THEN a ELSE b
Min(a, b) == IF a < b THEN a ELSE b

\* no call of preprocess_bboxes is under way
CropIdle ==
    [pc |-> "off", n |-> 0, bbox |-> <<>>, results |-> <<>>,
     read |-> [lo |-> -1, hi |-> -1], outcome |-> "none"]

MaxChanges == 3        \* times the backend starts, stops or restarts the stream
CONNECT_ATTEMPTS == 3  \* decode_stream: for attempt in 1..=3

\* the decode tasks that can be alive at once: a task outlives its session only
\* after the backend changed the stream under it
Slots == 1..MaxChanges

\* no decode task
DecodeFree == [pc |-> "free", attempt |-> 0, stop_signal |-> FALSE, stopped |-> 0]

\* the stream manager before init_sources: no monitor, no callbacks, the
\* backend not streaming
StreamIdle ==
    [mon |-> "off", callbacks |-> FALSE,
     backend |-> [is_streaming |-> FALSE, pid |-> 0, changes |-> 0],
     cur |-> 1, stream_pid |-> 0, ka |-> "off",
     dec |-> [s \in Slots |-> DecodeFree]]

----------------------------------------------------------------------------
(* tokio::sync::Mutex as used by the queue: try_lock never waits; lock().await
   queues the caller and the guard's drop hands the lock to the first waiter. *)

Unlocked == IF lockWaiters = <<>> THEN "none" ELSE Head(lockWaiters)

\* VecDeque primitives and the capacity test of send_sync / send_async
AtCapacity_OffByOne(q) == Len(q) > MAX_QUEUE_FRAMES
AtCapacity(q) == Len(q) >= MAX_QUEUE_FRAMES

pop_front_Peek(q) == <<Head(q), q>>
pop_front_Newest(q) == <<q[Len(q)], SubSeq(q, 1, Len(q) - 1)>>
pop_front(q) == <<Head(q), Tail(q)>>

push_back_Front(q, x) == <<x>> \o q
push_back(q, x) == Append(q, x)

\* queue_drop_callback of SourceProcessor::new
queue_drop_callback_Silent(x) ==
    /\ frames_failed' = frames_failed
    /\ failCount' = [failCount EXCEPT ![x] = @ + (frames_failed' - frames_failed)]
    /\ dropped' = Append(dropped, x)

queue_drop_callback(x) ==
    /\ frames_failed' = frames_failed + 1
    /\ failCount' = [failCount EXCEPT ![x] = @ + (frames_failed' - frames_failed)]
    /\ dropped' = Append(dropped, x)

\* Notify::notify_one: wake the waiting receiver, or store the permit.
NotifyOne_NoPermit(t, ret) ==
    /\ pc' = [w \in Threads |->
                IF pc[w] = "rv_waiting" THEN "rv_lock"
                ELSE IF w = t THEN ret ELSE pc[w]]
    /\ UNCHANGED notifyPermit

NotifyOne(t, ret) ==
    IF \E w \in Threads : pc[w] = "rv_waiting"
    THEN /\ pc' = [w \in Threads |->
                     IF pc[w] = "rv_waiting" THEN "rv_lock"
                     ELSE IF w = t THEN ret ELSE pc[w]]
         /\ UNCHANGED notifyPermit
    ELSE /\ notifyPermit' = TRUE
         /\ pc' = [pc EXCEPT ![t] = ret]

\* send_sync, line 58: try_lock
SendSyncTryLock(t) ==
    /\ pc[t] = "ss_try"
    /\ IF lockHolder = "none"
       THEN /\ lockHolder' = t
            /\ pc' = [pc EXCEPT ![t] = "s_locked"]
            /\ UNCHANGED contended
       ELSE /\ pc' = [pc EXCEPT ![t] = "ss_err"]
            /\ contended' = contended \cup {item[t]}
            /\ UNCHANGED lockHolder
    /\ UNCHANGED <<queue, lockWaiters, notifyPermit, item, permits, tasks, statVars,
                   inf_frame, inferVars, calls, admitted, pushed, dropped, received,
                   failCount, succCount, wasReset>>

\* send_async, line 80: lock().await
SendAsyncLock(t) ==
    /\ pc[t] = "sa_lock"
    /\ IF lockHolder = "none"
       THEN /\ lockHolder' = t
            /\ pc' = [pc EXCEPT ![t] = "s_locked"]
            /\ UNCHANGED lockWaiters
       ELSE /\ lockWaiters' = Append(lockWaiters, t)
            /\ pc' = [pc EXCEPT ![t] = "sa_lockwait"]
            /\ UNCHANGED lockHolder
    /\ UNCHANGED <<queue, notifyPermit, item, permits, tasks, statVars,
                   inf_frame, inferVars, calls, histVars>>

SendAsyncLockGranted(t) ==
    /\ pc[t] = "sa_lockwait"
    /\ lockHolder = t
    /\ pc' = [pc EXCEPT ![t] = "s_locked"]
    /\ UNCHANGED <<queueVars, item, permits, tasks, statVars,
                   inf_frame, inferVars, calls, histVars>>

\* lines 61-67 / 82-88: at capacity, pop the front and hand it to the callback
SendDropOldest(t) ==
    /\ pc[t] = "s_locked"
    /\ IF AtCapacity(queue) /\ queue # <<>>
       THEN /\ queue' = pop_front(queue)[2]
            /\ queue_drop_callback(pop_front(queue)[1])
       ELSE UNCHANGED <<queue, frames_failed, failCount, dropped, wasReset>>
    /\ pc' = [pc EXCEPT ![t] = "s_push"]
    /\ UNCHANGED <<lockHolder, lockWaiters, notifyPermit, item, permits, tasks,
                   frames_total, frames_success, time_sums,
                   inf_frame, inferVars, calls, admitted, pushed, received, contended,
                   succCount, wasReset>>

\* lines 69-70 / 90-91: push_back, drop(queue)
SendPush(t) ==
    /\ pc[t] = "s_push"
    /\ queue' = push_back(queue, item[t])
    /\ pushed' = Append(pushed, item[t])
    /\ lockHolder' = Unlocked
    /\ lockWaiters' = IF lockWaiters = <<>> THEN <<>> ELSE Tail(lockWaiters)
    /\ pc' = [pc EXCEPT ![t] = "s_notify"]
    /\ UNCHANGED <<notifyPermit, item, permits, tasks, statVars,
                   inf_frame, inferVars, calls, admitted, dropped, received, contended,
                   failCount, succCount, wasReset>>

\* lines 71-72 / 92: notify_one, return
SendNotify(t) ==
    /\ pc[t] = "s_notify"
    /\ NotifyOne(t, "idle")
    /\ UNCHANGED <<queue, lockHolder, lockWaiters, item, permits, tasks, statVars,
                   inf_frame, inferVars, calls, histVars>>

\* recv, line 104: lock().await
RecvLock(t) ==
    /\ pc[t] = "rv_lock"
    /\ IF lockHolder = "none"
       THEN /\ lockHolder' = t
            /\ pc' = [pc EXCEPT ![t] = "rv_locked"]
            /\ UNCHANGED lockWaiters
       ELSE /\ lockWaiters' = Append(lockWaiters, t)
            /\ pc' = [pc EXCEPT ![t] = "rv_lockwait"]
            /\ UNCHANGED lockHolder
    /\ UNCHANGED <<queue, notifyPermit, item, permits, tasks, statVars,
                   inf_frame, inferVars, calls, histVars>>

RecvLockGranted(t) ==
    /\ pc[t] = "rv_lockwait"
    /\ lockHolder = t
    /\ pc' = [pc EXCEPT ![t] = "rv_locked"]
    /\ UNCHANGED <<queueVars, item, permits, tasks, statVars,
                   inf_frame, inferVars, calls, histVars>>

\* lines 105-107: pop_front succeeded, return the item (the guard is dropped).
\* Constrains the queue and the receiver only; the caller adds its own effect.
RecvPop(t, ret) ==
    /\ pc[t] = "rv_locked"
    /\ queue # <<>>
    /\ queue' = pop_front(queue)[2]
    /\ item' = [item EXCEPT ![t] = pop_front(queue)[1]]
    /\ received' = Append(received, pop_front(queue)[1])
    /\ lockHolder' = Unlocked
    /\ lockWaiters' = IF lockWaiters = <<>> THEN <<>> ELSE Tail(lockWaiters)
    /\ pc' = [pc EXCEPT ![t] = ret]
    /\ UNCHANGED notifyPermit

\* lines 110-111: queue empty, create the Notified future, release the lock
RecvEmpty(t) ==
    /\ pc[t] = "rv_locked"
    /\ queue = <<>>
    /\ lockHolder' = Unlocked
    /\ lockWaiters' = IF lockWaiters = <<>> THEN <<>> ELSE Tail(lockWaiters)
    /\ pc' = [pc EXCEPT ![t] = "rv_await"]
    /\ UNCHANGED <<queue, notifyPermit, item, permits, tasks, statVars,
                   inf_frame, inferVars, calls, histVars>>

\* line 112: notified.await consumes a stored permit or registers as waiter
RecvAwait(t) ==
    /\ pc[t] = "rv_await"
    /\ IF notifyPermit
       THEN /\ notifyPermit' = FALSE
            /\ pc' = [pc EXCEPT ![t] = "rv_lock"]
       ELSE /\ pc' = [pc EXCEPT ![t] = "rv_waiting"]
            /\ UNCHANGED notifyPermit
    /\ UNCHANGED <<queue, lockHolder, lockWaiters, item, permits, tasks, statVars,
                   inf_frame, inferVars, calls, histVars>>

----------------------------------------------------------------------------
(* SourceProcessor: decoder callback, worker loop, per-frame tasks, reporter *)

\* process_frame, lines 299-302: load frames_total and decide
StrideAdmits(ft, n) == (ft + 1) % n = 0

ProcessFrameLoad ==
    /\ pc["dec"] = "idle"
    /\ calls < MaxFrames
    /\ calls' = calls + 1
    /\ item' = [item EXCEPT !["dec"] = calls + 1]
    /\ admitted' = Append(admitted, StrideAdmits(frames_total, inf_frame))
    /\ pc' = [pc EXCEPT !["dec"] =
                IF StrideAdmits(frames_total, inf_frame) THEN "ss_try" ELSE "pf_skip"]
    /\ UNCHANGED <<queueVars, permits, tasks, statVars, inf_frame, inferVars,
                   pushed, dropped, received, contended, failCount, succCount, wasReset>>

\* process_frame, lines 321-324
ProcessFrameSkip ==
    /\ pc["dec"] = "pf_skip"
    /\ frames_total' = frames_total + 1
    /\ pc' = [pc EXCEPT !["dec"] = "idle"]
    /\ UNCHANGED <<queueVars, item, permits, tasks, frames_success, time_sums,
                   frames_failed, inf_frame, inferVars, calls, histVars>>

\* process_frame, lines 312-320: send_sync returned Err
SendFailed_Uncounted(ff) == ff
SendFailed(ff) == ff + 1

ProcessFrameSendFailed ==
    /\ pc["dec"] = "ss_err"
    /\ frames_failed' = SendFailed(frames_failed)
    /\ failCount' = [failCount EXCEPT ![item["dec"]] = @ + (frames_failed' - frames_failed)]
    /\ pc' = [pc EXCEPT !["dec"] = "idle"]
    /\ UNCHANGED <<queueVars, item, permits, tasks, frames_total,
                   frames_success, time_sums, inf_frame, inferVars, calls,
                   admitted, pushed, dropped, received, contended, succCount, wasReset>>

\* worker loop, line 191: try_acquire_owned
WorkerTryAcquire_RecvAnyway ==
    /\ pc["wrk"] = "w_acquire"
    /\ permits' = IF permits > 0 THEN permits - 1 ELSE permits
    /\ pc' = [pc EXCEPT !["wrk"] = "rv_lock"]
    /\ UNCHANGED <<queueVars, item, tasks, statVars, inf_frame, inferVars, calls, histVars>>
WorkerTryAcquire ==
    /\ pc["wrk"] = "w_acquire"
    /\ IF permits > 0
       THEN /\ permits' = permits - 1
            /\ pc' = [pc EXCEPT !["wrk"] = "rv_lock"]
       ELSE /\ pc' = [pc EXCEPT !["wrk"] = "w_yield"]
            /\ UNCHANGED permits
    /\ UNCHANGED <<queueVars, item, tasks, statVars, inf_frame, inferVars, calls, histVars>>

\* worker loop, line 240: yield_now
WorkerYield ==
    /\ pc["wrk"] = "w_yield"
    /\ pc' = [pc EXCEPT !["wrk"] = "w_acquire"]
    /\ UNCHANGED <<queueVars, item, permits, tasks, statVars, inf_frame, inferVars, calls,
                   histVars>>

\* line 203: the permit moves into the task (let _permit = permit) and stays taken
PermitMoved_DroppedAtOnce(p) == p + 1
PermitMoved(p) == p

\* worker loop, lines 194-234: recv returned a frame, spawn its task with the permit
WorkerRecvSpawn ==
    /\ RecvPop("wrk", "w_acquire")
    /\ permits' = PermitMoved(permits)
    /\ tasks' = [f \in DOMAIN tasks \cup {item'["wrk"]} |->
                   IF f = item'["wrk"] THEN "run" ELSE tasks[f]]
    /\ UNCHANGED <<statVars, inf_frame, inferVars, calls,
                   admitted, pushed, dropped, contended, failCount, succCount, wasReset>>

\* per-frame task, lines 205-213: process_frame_internal ended with ok or an
\* error; frames_total is incremented (frames_expected, a counter nothing but
\* the log line reads, moves with it and is not kept)
TaskFinish(f, ok) ==
    /\ f \in DOMAIN tasks
    /\ tasks[f] = "run"
    /\ frames_total' = frames_total + 1
    /\ tasks' = [tasks EXCEPT ![f] = IF ok THEN "cnt_ok" ELSE "cnt_err"]
    /\ UNCHANGED <<queueVars, pc, item, permits, frames_success, time_sums, frames_failed,
                   inf_frame, inferVars, calls, histVars>>

\* SourceStats::new: the six running sums start at 0 (reset stores 0 again)
ZeroSums ==
    [queue |-> 0, pre_processing |-> 0, inference |-> 0, post_processing |-> 0,
     results |-> 0, processing |-> 0]

\* the FrameProcessStats process_frame_internal returns for a frame
FrameStats(f) ==
    [queue |-> 1, pre_processing |-> 1, inference |-> 1, post_processing |-> 1,
     results |-> 1, processing |-> 1]

\* SourceStats::add_stats, lines 122-129
add_stats(sums, stats) ==
    [queue |-> sums.queue + stats.queue,
     pre_processing |-> sums.pre_processing + stats.pre_processing,
     inference |-> sums.inference + stats.inference,
     post_processing |-> sums.post_processing + stats.post_processing,
     results |-> sums.results + stats.results,
     processing |-> sums.processing + stats.processing]

\* lines 214-224: only the Ok arm of the match accumulates the frame's times
SumsAfter_BothArms(ok, sums, stats) == add_stats(sums, stats)
SumsAfter(ok, sums, stats) == IF ok THEN add_stats(sums, stats) ELSE sums

\* per-frame task, lines 214-224
TaskCount(f) ==
    /\ f \in DOMAIN tasks
    /\ tasks[f] \in {"cnt_ok", "cnt_err"}
    /\ IF tasks[f] = "cnt_ok"
       THEN /\ frames_success' = frames_success + 1
            /\ succCount' = [succCount EXCEPT ![f] = @ + 1]
            /\ UNCHANGED <<frames_failed, failCount, wasReset>>
       ELSE /\ frames_failed' = frames_failed + 1
            /\ failCount' = [failCount EXCEPT ![f] = @ + 1]
            /\ UNCHANGED <<frames_success, succCount, wasReset>>
    /\ time_sums' = SumsAfter(tasks[f] = "cnt_ok", time_sums, FrameStats(f))
    /\ tasks' = [tasks EXCEPT ![f] = "end"]
    /\ UNCHANGED <<queueVars, pc, item, permits, frames_total,
                   inf_frame, inferVars, calls,
                   admitted, pushed, dropped, received, contended, wasReset>>

\* per-frame task, line 234: the closure ends, _permit is dropped
Released_Leaked(p) == p
Released(p) == p + 1

TaskEnd(f) ==
    /\ f \in DOMAIN tasks
    /\ tasks[f] = "end"
    /\ permits' = Released(permits)
    /\ tasks' = [g \in DOMAIN tasks \ {f} |-> tasks[g]]
    /\ UNCHANGED <<queueVars, pc, item, statVars, inf_frame, inferVars, calls, histVars>>

\* stats reporter, lines 264-276: one turn of the loop after a tick.
\* process_stats_internal only reads the counters and logs; reset stores 0.
ReporterReport ==
    /\ pc["rep"] = "r_idle"
    /\ frames_total' = 0
    /\ frames_success' = 0
    /\ frames_failed' = 0
    /\ time_sums' = ZeroSums
    /\ wasReset' = TRUE
    /\ UNCHANGED <<queueVars, pc, item, permits, tasks, inf_frame, inferVars, calls,
                   admitted, pushed, dropped, received, contended, failCount, succCount>>

----------------------------------------------------------------------------

InitCommon ==
    /\ queue = <<>>
    /\ lockHolder = "none"
    /\ lockWaiters = <<>>
    /\ notifyPermit = FALSE
    /\ item = [t \in Threads |-> 0]
    /\ permits = MAX_PARALLEL_FRAME_PROCESSING
    /\ tasks = <<>>
    /\ frames_total = 0
    /\ frames_success = 0
    /\ frames_failed = 0
    /\ time_sums = ZeroSums
    /\ calls = 0
    /\ admitted = <<>>
    /\ pushed = <<>>
    /\ dropped = <<>>
    /\ received = <<>>
    /\ contended = {}
    /\ failCount = [f \in Ids |-> 0]
    /\ succCount = [f \in Ids |-> 0]
    /\ wasReset = FALSE
    /\ frames_expected = 0
    /\ report = [ticks |-> 0, emitted |-> 0, record |-> <<>>, reported |-> 0]
    /\ publisher = [calls |-> 0, outcome |-> "none", returned |-> "none", warned |-> 0]
    /\ stream = StreamIdle

\* the supervisor's globals before any initialisation
ModelTypes == {"detection", "embedding"}
SourceIds == 1..MaxSources
NoCall ==
    [fn |-> "none", pc |-> "idle", calls |-> 0, todo |-> {}, models |-> <<>>, cur |-> "none",
     instances |-> 0, log |-> <<>>, result |-> "none"]

SupervisorIdle ==
    /\ INFERENCE_MODELS = [set |-> FALSE, map |-> <<>>]
    /\ PROCESSORS = [written |-> 0, map |-> <<>>]
    /\ clients = <<>>
    /\ sup = NoCall

SupervisorOff ==
    /\ SupervisorIdle
    /\ app_config = [sources |-> {}, models |-> ModelTypes]

\* no call of the tensor codec is under way
CodecOff ==
    /\ codecPc = "off"
    /\ frame = [height |-> 0, width |-> 0, len |-> 0]
    /\ precision = "FP32"
    /\ raw_results = [len |-> 0, data |-> <<>>]
    /\ output_shape = <<>>
    /\ pred_conf_threshold = 0
    /\ nms_threshold = 0
    /\ candidates = [input |-> <<>>, visited |-> <<>>]
    /\ detections = <<>>
    /\ decoded = 0
    /\ reads = [max |-> -1, oob |-> FALSE]
    /\ crop = CropIdle
    /\ codecResult = "none"
    /\ pre_frame = [len |-> 0, written |-> 0]
    /\ letterbox = <<>>

\* no call of infer is under way
InferOff ==
    /\ CodecOff
    /\ raw_inputs = <<>>
    /\ max_batch_size = 1
    /\ inferPc = "off"
    /\ chunkTasks = <<>>
    /\ completed = <<>>
    /\ all_results = <<>>
    /\ SupervisorOff

\* State after SourceProcessor::new
Init ==
    /\ InitCommon
    /\ InferOff
    /\ inf_frame \in 1..MaxStride
    /\ pc = [t \in Threads |->
               CASE t = "dec" -> "idle"
                 [] t = "wrk" -> "w_acquire"
                 [] t = "rep" -> "r_idle"
                 [] OTHER -> "off"]

Next ==
    \/ ProcessFrameLoad
    \/ ProcessFrameSkip
    \/ SendSyncTryLock("dec")
    \/ ProcessFrameSendFailed
    \/ SendDropOldest("dec")
    \/ SendPush("dec")
    \/ SendNotify("dec")
    \/ WorkerTryAcquire
    \/ WorkerYield
    \/ RecvLock("wrk")
    \/ RecvLockGranted("wrk")
    \/ WorkerRecvSpawn
    \/ RecvEmpty("wrk")
    \/ RecvAwait("wrk")
    \/ \E f \in Ids, ok \in BOOLEAN : TaskFinish(f, ok)
    \/ \E f \in Ids : TaskCount(f)
    \/ \E f \in Ids : TaskEnd(f)
    \/ ReporterReport

Spec == Init /\ [][Next]_vars

\* The pipeline behind process_frame under fair scheduling on the tokio runtime:
\* the worker loop and every spawned task keep being polled, and a process_frame
\* call that has started runs to its end; the decoder is free to stop delivering
\* frames.  Every frame is offered (inf_frame = 1), so the counters steer
\* nothing, and the reporter, which only stores to them, is left out.
FairInit ==
    /\ Init
    /\ inf_frame = 1

FairNext ==
    \/ ProcessFrameLoad
    \/ SendSyncTryLock("dec")
    \/ ProcessFrameSendFailed
    \/ SendDropOldest("dec")
    \/ SendPush("dec")
    \/ SendNotify("dec")
    \/ WorkerTryAcquire
    \/ WorkerYield
    \/ RecvLock("wrk")
    \/ RecvLockGranted("wrk")
    \/ WorkerRecvSpawn
    \/ RecvEmpty("wrk")
    \/ RecvAwait("wrk")
    \/ \E f \in Ids, ok \in BOOLEAN : TaskFinish(f, ok)
    \/ \E f \in Ids : TaskCount(f)
    \/ \E f \in Ids : TaskEnd(f)

Fair ==
    /\ WF_vars(SendSyncTryLock("dec") \/ ProcessFrameSendFailed
                 \/ SendDropOldest("dec") \/ SendPush("dec") \/ SendNotify("dec"))
    /\ WF_vars(WorkerTryAcquire \/ WorkerYield \/ RecvLock("wrk") \/ RecvLockGranted("wrk")
                 \/ WorkerRecvSpawn \/ RecvEmpty("wrk") \/ RecvAwait("wrk"))
    /\ \A f \in 1..MaxFrames :
          WF_vars((\E ok \in BOOLEAN : TaskFinish(f, ok)) \/ TaskCount(f) \/ TaskEnd(f))

FairSpec == FairInit /\ [][FairNext]_vars /\ Fair

\* per-frame task, lines 202-204: process_frame_internal panics; the closure
\* unwinds inside the tokio task, nothing is counted, and _permit is dropped
TaskPanic_PermitLost(f) ==
    /\ f \in DOMAIN tasks
    /\ tasks[f] = "run"
    /\ tasks' = [g \in DOMAIN tasks \ {f} |-> tasks[g]]
    /\ UNCHANGED <<queueVars, pc, item, permits, statVars, inf_frame, inferVars, calls,
                   histVars>>
TaskPanic(f) ==
    /\ f \in DOMAIN tasks
    /\ tasks[f] = "run"
    /\ permits' = permits + 1
    /\ tasks' = [g \in DOMAIN tasks \ {f} |-> tasks[g]]
    /\ UNCHANGED <<queueVars, pc, item, statVars, inf_frame, inferVars, calls, histVars>>

\* the fair pipeline with per-frame tasks that may panic
PanicNext ==
    \/ FairNext
    \/ \E f \in Ids : TaskPanic(f)

PanicSpec == FairInit /\ [][PanicNext]_vars /\ Fair

----------------------------------------------------------------------------
(* Drop of the SourceProcessor.  JoinHandle::abort asks for the cancellation of a
   task: a task that is not running is dropped without being polled again; a
   task that is being polled on another thread of the multi-thread runtime runs
   on to its next pending await.  Detached per-frame tasks are not touched. *)

Dropped == pc["dec"] = "dropped"

\* the worker loop may be off the processor only at one of its awaits
WorkerAtAwait == pc["wrk"] \in {"rv_lock", "rv_lockwait", "rv_await", "rv_waiting", "w_yield"}

\* impl Drop, lines 453-459; no process_frame call is under way, as a call
\* borrows the processor.  The reporter is waiting for its tick or in the
\* middle of a turn.
DropProcessor ==
    /\ pc["dec"] = "idle"
    /\ \E r \in {"cancelled", "r_last"} :
          pc' = [pc EXCEPT !["dec"] = "dropped", !["rep"] = r]
    /\ UNCHANGED <<queueVars, item, permits, tasks, statVars, inf_frame, inferVars,
                   calls, histVars>>

\* the aborted worker loop is dropped at an await: the permit it took for the
\* frame it was waiting for goes back, and so does its place at the Mutex
WorkerCancelled ==
    /\ Dropped
    /\ WorkerAtAwait
    /\ pc' = [pc EXCEPT !["wrk"] = "cancelled"]
    /\ permits' = IF pc["wrk"] = "w_yield" THEN permits ELSE permits + 1
    /\ lockWaiters' = SelectSeq(lockWaiters, LAMBDA t : t # "wrk")
    /\ lockHolder' = IF lockHolder = "wrk" THEN "none" ELSE lockHolder
    /\ UNCHANGED <<queue, notifyPermit, item, tasks, statVars, inf_frame, inferVars,
                   calls, histVars>>

\* yield_now returns Pending once: an aborted worker loop is not polled again
WorkerResume ==
    /\ ~Dropped
    /\ WorkerYield

\* the turn of the reporter that was under way at the drop: lines 267-274
ReporterLastReport ==
    /\ pc["rep"] = "r_last"
    /\ frames_total' = 0
    /\ frames_success' = 0
    /\ frames_failed' = 0
    /\ time_sums' = ZeroSums
    /\ wasReset' = TRUE
    /\ pc' = [pc EXCEPT !["rep"] = "cancelled"]
    /\ UNCHANGED <<queueVars, item, permits, tasks, inf_frame, inferVars, calls,
                   admitted, pushed, dropped, received, contended, failCount, succCount>>

DropInit ==
    /\ Init
    /\ inf_frame = 1

DropNext ==
    \/ ProcessFrameLoad
    \/ SendSyncTryLock("dec")
    \/ ProcessFrameSendFailed
    \/ SendDropOldest("dec")
    \/ SendPush("dec")
    \/ SendNotify("dec")
    \/ WorkerTryAcquire
    \/ WorkerResume
    \/ RecvLock("wrk")
    \/ RecvLockGranted("wrk")
    \/ WorkerRecvSpawn
    \/ RecvEmpty("wrk")
    \/ RecvAwait("wrk")
    \/ \E f \in Ids, ok \in BOOLEAN : TaskFinish(f, ok)
    \/ \E f \in Ids : TaskCount(f)
    \/ \E f \in Ids : TaskEnd(f)
    \/ ReporterReport
    \/ DropProcessor
    \/ WorkerCancelled
    \/ ReporterLastReport

DropSpec == DropInit /\ [][DropNext]_vars

----------------------------------------------------------------------------
(* The queue on its own: a send_sync producer "ps", a send_async producer
   "pa" and one consumer "cons" calling recv in a loop. *)

ProducerCall(t) ==
    /\ pc[t] = "idle"
    /\ calls < MaxItems
    /\ calls' = calls + 1
    /\ item' = [item EXCEPT ![t] = calls + 1]
    /\ pc' = [pc EXCEPT ![t] = IF t = "ps" THEN "ss_try" ELSE "sa_lock"]
    /\ UNCHANGED <<queueVars, permits, tasks, statVars, inf_frame, inferVars, histVars>>

\* the caller of send_sync gets Err and gives the item up
ProducerErr(t) ==
    /\ pc[t] = "ss_err"
    /\ pc' = [pc EXCEPT ![t] = "idle"]
    /\ UNCHANGED <<queueVars, item, permits, tasks, statVars, inf_frame, inferVars, calls, histVars>>

ConsumerCall ==
    /\ pc["cons"] = "idle"
    /\ pc' = [pc EXCEPT !["cons"] = "rv_lock"]
    /\ UNCHANGED <<queueVars, item, permits, tasks, statVars, inf_frame, inferVars, calls, histVars>>

ConsumerRecv ==
    /\ RecvPop("cons", "idle")
    /\ UNCHANGED <<permits, tasks, statVars, inf_frame, inferVars, calls,
                   admitted, pushed, dropped, contended, failCount, succCount, wasReset>>

QueueInit ==
    /\ InitCommon
    /\ InferOff
    /\ inf_frame = 1
    /\ pc = [t \in Threads |->
               IF t \in {"ps", "pa", "cons"} THEN "idle" ELSE "off"]

QueueNext ==
    \/ ProducerCall("ps")
    \/ ProducerCall("pa")
    \/ SendSyncTryLock("ps")
    \/ ProducerErr("ps")
    \/ SendAsyncLock("pa")
    \/ SendAsyncLockGranted("pa")
    \/ \E t \in {"ps", "pa"} : SendDropOldest(t)
    \/ \E t \in {"ps", "pa"} : SendPush(t)
    \/ \E t \in {"ps", "pa"} : SendNotify(t)
    \/ ConsumerCall
    \/ RecvLock("cons")
    \/ RecvLockGranted("cons")
    \/ ConsumerRecv
    \/ RecvEmpty("cons")
    \/ RecvAwait("cons")

QueueSpec == QueueInit /\ [][QueueNext]_vars

\* Fair scheduling of the queue's users: a call that has started runs on; the
\* producers are free never to call again, the consumer keeps calling recv.
QueueFair ==
    /\ WF_vars(SendSyncTryLock("ps") \/ ProducerErr("ps"))
    /\ WF_vars(SendAsyncLock("pa") \/ SendAsyncLockGranted("pa"))
    /\ WF_vars(\E t \in {"ps", "pa"} : SendDropOldest(t) \/ SendPush(t) \/ SendNotify(t))
    /\ WF_vars(ConsumerCall \/ RecvLock("cons") \/ RecvLockGranted("cons")
                 \/ ConsumerRecv \/ RecvEmpty("cons") \/ RecvAwait("cons"))

QueueFairSpec == QueueSpec /\ QueueFair

----------------------------------------------------------------------------
(* InferenceModel::infer: one call that splits its inputs into chunks, sends
   every chunk to the gateway in a task of its own and places the outputs.
   A sample is one input byte; the gateway answers a request with the model's
   output bytes of its samples, in the order of the payload. *)

pipeVars == <<queue, lockHolder, lockWaiters, notifyPermit, pc, item, permits, tasks,
              frames_total, frames_success, frames_failed, time_sums, inf_frame, calls,
              admitted, pushed, dropped, received, contended, failCount, succCount,
              wasReset, reportVars, publisher, stream>>

RECURSIVE Flatten(_)
Flatten(ss) == IF ss = <<>> THEN <<>> ELSE Head(ss) \o Flatten(Tail(ss))

\* what the served model computes for one sample
ModelOutput(sample) == [j \in 1..OutputSize |-> 10 * sample[1] + j]

\* raw_output_contents[0] of a well-formed response to a request payload
Response(payload) == Flatten([k \in 1..Len(payload) |-> ModelOutput(<<payload[k]>>)])

\* bytes a read beyond the end of the response blob may deliver
GarbageBytes == {0, 255}

\* line 322: raw_inputs.chunks(max_batch_size)
NumChunks(n, m) == (n + m - 1) \div m
Chunk(c) ==
    SubSeq(raw_inputs, c * max_batch_size + 1,
           Min((c + 1) * max_batch_size, Len(raw_inputs)))

\* line 326
StartIdx_Unscaled(chunk_idx, m) == chunk_idx
StartIdx(chunk_idx, m) == chunk_idx * m

\* lines 329-333
Concatenate(chunk) == Flatten(chunk)

\* model_config.input_shape, and the shape of base_request (lines 132-144)
input_shape == <<3, 2, 2>>
base_request_shape == input_shape

\* line 336: inputs[0].shape.insert(0, batch_size)
ShapeInsert_Appended(shape, batch_size) == Append(shape, batch_size)
ShapeInsert(shape, batch_size) == <<batch_size>> \o shape

\* lines 354-363: batch_size slices of output_size bytes cut at i * output_size,
\* with no look at the length of the blob; g is what a byte beyond its end reads
SplitBatch(blob, batch_size, g) ==
    [i \in 1..batch_size |->
        [j \in 1..OutputSize |->
            IF (i - 1) * OutputSize + j <= Len(blob)
            THEN blob[(i - 1) * OutputSize + j]
            ELSE g]]

\* lines 316-373: pre-allocate the slots, spawn one task per chunk
InferSpawn ==
    /\ inferPc = "call"
    /\ all_results' = [i \in 1..Len(raw_inputs) |-> <<>>]
    /\ chunkTasks' =
         [c \in 0..(NumChunks(Len(raw_inputs), max_batch_size) - 1) |->
            [start_idx |-> StartIdx(c, max_batch_size),
             batch_size |-> Len(Chunk(c)),
             shape |-> ShapeInsert(base_request_shape, Len(Chunk(c))),
             request |-> Concatenate(Chunk(c)),
             resp_len |-> 0,
             state |-> "sent",
             batch |-> <<>>]]
    /\ inferPc' = "join"
    /\ UNCHANGED <<pipeVars, supervisorVars, codecVars, raw_inputs, max_batch_size, completed>>

\* lines 342-371: the task of chunk c runs to its end.  The gateway call fails
\* or answers without output ("err"), or answers with a blob of the expected
\* length ("ok"), one byte short ("short", "short_fault") or one byte long
\* ("long"); reading past a short blob delivers some byte or faults.
ChunkComplete(c, kind, g) ==
    /\ inferPc = "join"
    /\ c \in DOMAIN chunkTasks
    /\ chunkTasks[c].state = "sent"
    /\ LET full == Response(chunkTasks[c].request)
           blob == CASE kind = "ok" -> full
                     [] kind \in {"short", "short_fault"} -> SubSeq(full, 1, Len(full) - 1)
                     [] kind = "long" -> Append(full, 0)
                     [] OTHER -> <<>>
       IN  IF kind = "err"
           THEN /\ chunkTasks' = [chunkTasks EXCEPT ![c].state = "err"]
                /\ inferPc' = inferPc
           ELSE IF kind = "short_fault"
           THEN /\ chunkTasks' = [chunkTasks EXCEPT ![c].state = "fault",
                                                    ![c].resp_len = Len(blob)]
                /\ inferPc' = "fault"
           ELSE /\ chunkTasks' = [chunkTasks EXCEPT
                                    ![c].state = "ok",
                                    ![c].resp_len = Len(blob),
                                    ![c].batch = SplitBatch(blob, chunkTasks[c].batch_size, g)]
                /\ inferPc' = inferPc
    /\ completed' = Append(completed, c)
    /\ UNCHANGED <<pipeVars, supervisorVars, codecVars, raw_inputs, max_batch_size, all_results>>

\* lines 380-385: the results are taken in the order of the tasks and every
\* output goes to slot start_idx + i
RECURSIVE Place(_, _, _)
Place(slots, results, k) ==
    IF k > Len(results) THEN slots
    ELSE Place([i \in 1..Len(slots) |->
                   IF /\ i - results[k].start_idx >= 1
                      /\ i - results[k].start_idx <= Len(results[k].batch)
                   THEN results[k].batch[i - results[k].start_idx]
                   ELSE slots[i]],
               results, k + 1)

\* futures::future::try_join_all: the outputs of the tasks, in the order of the
\* task vector
JoinAll == [k \in 1..NumChunks(Len(raw_inputs), max_batch_size) |-> chunkTasks[k - 1]]

\* an index beyond the slots panics
PlacePanics(results) ==
    \E k \in 1..Len(results) :
        results[k].start_idx + Len(results[k].batch) > Len(all_results)

\* line 381: result? returns the error of the first task that failed
AnyErr_Ignored(results) == FALSE
AnyErr(results) == \E k \in 1..Len(results) : results[k].state = "err"

\* lines 376-387: all tasks are over; place the outputs and return
InferJoin ==
    /\ inferPc = "join"
    /\ \A c \in DOMAIN chunkTasks : chunkTasks[c].state \in {"ok", "err"}
    /\ IF AnyErr(JoinAll)
       THEN /\ inferPc' = "err"
            /\ all_results' = <<>>
       ELSE IF PlacePanics(JoinAll)
       THEN /\ inferPc' = "panic"
            /\ all_results' = <<>>
       ELSE /\ inferPc' = "ok"
            /\ all_results' = Place(all_results, JoinAll, 1)
    /\ UNCHANGED <<pipeVars, supervisorVars, codecVars, raw_inputs, max_batch_size, chunkTasks, completed>>

\* a call of infer with n inputs on a model with batch_max_size m
InferInit ==
    /\ InitCommon
    /\ inf_frame = 1
    /\ pc = [t \in Threads |-> "off"]
    /\ \E n \in 0..MaxInputs : raw_inputs = [i \in 1..n |-> <<i>>]
    /\ max_batch_size \in 1..MaxBatch
    /\ inferPc = "call"
    /\ chunkTasks = <<>>
    /\ completed = <<>>
    /\ all_results = <<>>
    /\ SupervisorOff
    /\ CodecOff

InferNext ==
    \/ InferSpawn
    \/ \E c \in 0..(MaxInputs - 1), kind \in {"ok", "err", "short", "short_fault", "long"},
          g \in GarbageBytes : ChunkComplete(c, kind, g)
    \/ InferJoin

InferSpec == InferInit /\ [][InferNext]_vars

----------------------------------------------------------------------------
(* The supervisor: init_inference_models, start_models_instances and
   init_source_processors, called one after the other in any order, and the
   GPU statistics thread every InferenceModel starts. *)

otherVars == <<pipeVars, raw_inputs, max_batch_size, inferPc, chunkTasks, completed,
               all_results, codecVars>>

\* a function returns: back to the caller with a result
Return(res) == [sup EXCEPT !.pc = "idle", !.result = res, !.todo = {}, !.cur = "none"]

\* the Arc<InferenceModel> values of a dropped HashMap are dropped.  There is no
\* impl Drop for InferenceModel: its stats_handle is detached, the thread
\* is left as it is.
DropClients(ids) ==
    [c \in DOMAIN clients |->
        IF c \in ids THEN [clients[c] EXCEPT !.alive = FALSE] ELSE clients[c]]

\* init_inference_models, lines 43-48
InitModelsCall ==
    /\ sup.pc = "idle"
    /\ sup.calls < MaxSupCalls
    /\ IF INFERENCE_MODELS.set
       THEN sup' = [Return("err") EXCEPT !.fn = "init_inference_models", !.calls = @ + 1]
       ELSE sup' = [sup EXCEPT !.fn = "init_inference_models",
                               !.pc = "im_loop", !.calls = @ + 1, !.result = "none",
                               !.todo = app_config.models, !.models = <<>>]
    /\ UNCHANGED <<INFERENCE_MODELS, PROCESSORS, clients, app_config, otherVars>>

\* lines 49-62: InferenceModel::new for the next model type.  A new client
\* comes with its stats thread (lines 159-188); an error ends the function and
\* drops the map built so far.
InitModelsNew(m, ok) ==
    /\ sup.pc = "im_loop"
    /\ m \in sup.todo
    /\ IF ok
       THEN /\ clients' = Append(clients, [alive |-> TRUE, thread |-> "measure"])
            /\ sup' = [sup EXCEPT !.todo = @ \ {m},
                                  !.models = [t \in DOMAIN sup.models \cup {m} |->
                                                IF t = m THEN Len(clients) + 1
                                                ELSE sup.models[t]]]
       ELSE /\ clients' = DropClients({sup.models[t] : t \in DOMAIN sup.models})
            /\ sup' = [Return("err") EXCEPT !.models = <<>>]
    /\ UNCHANGED <<INFERENCE_MODELS, PROCESSORS, app_config, otherVars>>

\* lines 65-68: INFERENCE_MODELS.set(models)
InitModelsSet ==
    /\ sup.pc = "im_loop"
    /\ sup.todo = {}
    /\ IF INFERENCE_MODELS.set
       THEN /\ clients' = DropClients({sup.models[t] : t \in DOMAIN sup.models})
            /\ sup' = [Return("err") EXCEPT !.models = <<>>]
            /\ UNCHANGED INFERENCE_MODELS
       ELSE /\ INFERENCE_MODELS' = [set |-> TRUE, map |-> sup.models]
            /\ sup' = [Return("ok") EXCEPT !.models = <<>>]
            /\ UNCHANGED clients
    /\ UNCHANGED <<PROCESSORS, app_config, otherVars>>

\* start_models_instances, lines 74-77
Instances_One(sources) == 1
Instances(sources) == Cardinality(sources)

StartInstancesCall ==
    /\ sup.pc = "idle"
    /\ sup.calls < MaxSupCalls
    /\ sup' = [sup EXCEPT !.fn = "start_models_instances",
                          !.pc = "st_loop", !.calls = @ + 1, !.result = "none",
                          !.todo = app_config.models, !.log = <<>>,
                          !.instances = Instances(app_config.sources)]
    /\ UNCHANGED <<INFERENCE_MODELS, PROCESSORS, clients, app_config, otherVars>>

\* lines 80-81: the next key of the models map, get_inference_model(..)?
StartInstancesGet(m) ==
    /\ sup.pc = "st_loop"
    /\ m \in sup.todo
    /\ IF INFERENCE_MODELS.set /\ m \in DOMAIN INFERENCE_MODELS.map
       THEN sup' = [sup EXCEPT !.pc = "st_unload", !.cur = m]
       ELSE sup' = Return("err")
    /\ UNCHANGED <<INFERENCE_MODELS, PROCESSORS, clients, app_config, otherVars>>

\* lines 84-86: unload_model; its result only decides whether a warning is logged
AfterUnload_Abort(ok) == IF ok THEN "st_load" ELSE "st_fail"
AfterUnload(ok) == "st_load"

StartInstancesUnload(ok) ==
    /\ sup.pc = "st_unload"
    /\ sup' = [sup EXCEPT !.pc = AfterUnload(ok),
                          !.log = Append(@, [op |-> "unload", model |-> sup.cur,
                                             instances |-> 0, ok |-> ok])]
    /\ UNCHANGED <<INFERENCE_MODELS, PROCESSORS, clients, app_config, otherVars>>

\* lines 89-92: load_model(instances).await.context(..)?
StartInstancesLoad(ok) ==
    /\ sup.pc = "st_load"
    /\ LET log == Append(sup.log, [op |-> "load", model |-> sup.cur,
                                   instances |-> sup.instances, ok |-> ok])
       IN  IF ok
           THEN sup' = [sup EXCEPT !.pc = "st_loop", !.todo = @ \ {sup.cur},
                                   !.cur = "none", !.log = log]
           ELSE sup' = [Return("err") EXCEPT !.log = log]
    /\ UNCHANGED <<INFERENCE_MODELS, PROCESSORS, clients, app_config, otherVars>>

\* line 95
StartInstancesDone ==
    /\ sup.pc = "st_loop"
    /\ sup.todo = {}
    /\ sup' = Return("ok")
    /\ UNCHANGED <<INFERENCE_MODELS, PROCESSORS, clients, app_config, otherVars>>

\* init_source_processors, lines 42-68: a new processor for every configured
\* source, then the map is stored; PROCESSORS.written counts the stores and a
\* processor is named by the store that created it
StoreProcessors_Once(old, new) == IF old.written > 0 THEN old ELSE new
StoreProcessors(old, new) == new

InitProcessorsCall ==
    /\ sup.pc = "idle"
    /\ sup.calls < MaxSupCalls
    /\ PROCESSORS' = StoreProcessors(PROCESSORS,
                        [written |-> PROCESSORS.written + 1,
                         map |-> [src \in app_config.sources |-> PROCESSORS.written + 1]])
    /\ sup' = [Return("ok") EXCEPT !.fn = "init_source_processors", !.calls = @ + 1]
    /\ UNCHANGED <<INFERENCE_MODELS, clients, app_config, otherVars>>

\* the stats thread of client c, lines 162-188: query the GPU and log, sleep
GpuMeasure(c) ==
    /\ c \in DOMAIN clients
    /\ clients[c].thread = "measure"
    /\ clients' = [clients EXCEPT ![c].thread = "sleep"]
    /\ UNCHANGED <<INFERENCE_MODELS, PROCESSORS, app_config, sup, otherVars>>

GpuWake(c) ==
    /\ c \in DOMAIN clients
    /\ clients[c].thread = "sleep"
    /\ clients' = [clients EXCEPT ![c].thread = "measure"]
    /\ UNCHANGED <<INFERENCE_MODELS, PROCESSORS, app_config, sup, otherVars>>

\* the process at start, with n configured sources
SupervisorInit ==
    /\ InitCommon
    /\ inf_frame = 1
    /\ pc = [t \in Threads |-> "off"]
    /\ raw_inputs = <<>>
    /\ max_batch_size = 1
    /\ inferPc = "off"
    /\ chunkTasks = <<>>
    /\ completed = <<>>
    /\ all_results = <<>>
    /\ CodecOff
    /\ SupervisorIdle
    /\ \E n \in 0..MaxSources : app_config = [sources |-> 1..n, models |-> ModelTypes]

SupervisorNext ==
    \/ InitModelsCall
    \/ \E m \in ModelTypes, ok \in BOOLEAN : InitModelsNew(m, ok)
    \/ InitModelsSet
    \/ StartInstancesCall
    \/ \E m \in ModelTypes : StartInstancesGet(m)
    \/ \E ok \in BOOLEAN : StartInstancesUnload(ok)
    \/ \E ok \in BOOLEAN : StartInstancesLoad(ok)
    \/ StartInstancesDone
    \/ InitProcessorsCall
    \/ \E c \in 1..(2 * MaxSupCalls) : GpuMeasure(c)
    \/ \E c \in 1..(2 * MaxSupCalls) : GpuWake(c)

SupervisorSpec == SupervisorInit /\ [][SupervisorNext]_vars

----------------------------------------------------------------------------
(* The tensor codec of the YOLO path (processing/yolo.rs): bbox_nms,
   postprocess and preprocess.  An f32 of the code is an exact rational of
   the model: a threshold is num/den, a score counts units of 1/ScoreDen. *)

nonCodecVars == <<pipeVars, raw_inputs, max_batch_size, inferPc, chunkTasks, completed,
                  all_results, supervisorVars>>

\* the pipeline, infer and the supervisor are not running
PipelineOff ==
    /\ InitCommon
    /\ inf_frame = 1
    /\ pc = [t \in Threads |-> "off"]
    /\ raw_inputs = <<>>
    /\ max_batch_size = 1
    /\ inferPc = "off"
    /\ chunkTasks = <<>>
    /\ completed = <<>>
    /\ all_results = <<>>
    /\ SupervisorOff

SeqsUpTo(S, n) == UNION {[1..k -> S] : k \in 0..n}
Perms(n) == {p \in [1..n -> 1..n] : \A i, j \in 1..n : i # j => p[i] # p[j]}

\* ResultBBOX values handed to bbox_nms: three overlapping boxes (IoU 3/4, 1/3
\* and 2/5 with one another) and one of zero width, two classes, two scores;
\* class 1 comes at the higher score only and the empty box once
NmsBoxes == {<<0, 0, 4, 4>>, <<1, 0, 4, 4>>, <<2, 0, 6, 4>>, <<3, 1, 3, 4>>}
NmsClasses == {0, 1}
NmsScores == {1, 2}
ResultBBOX ==
    {d \in [bbox : NmsBoxes, class : NmsClasses, score : NmsScores] :
        /\ d.class = 1 => d.score = 2
        /\ d.bbox = <<3, 1, 3, 4>> => (d.class = 0 /\ d.score = 1)}
Thresholds == {[num |-> n, den |-> 4] : n \in 0..4}

\* yolo.rs:61-63: sort_unstable_by on the score, descending: some permutation
\* of the vector in non-increasing score order; equal scores land in any order
SortUnstable(dets) ==
    {s \in {[i \in 1..Len(dets) |-> dets[p[i]]] : p \in Perms(Len(dets))} :
        \A i \in 1..(Len(s) - 1) : s[i].score >= s[i + 1].score}

\* yolo.rs:75-97 with the class test left out
Suppresses_AnyClass(kept, detection_i, t) ==
    LET x1_max == Max(detection_i.bbox[1], kept.bbox[1])
        y1_max == Max(detection_i.bbox[2], kept.bbox[2])
        x2_min == Min(detection_i.bbox[3], kept.bbox[3])
        y2_min == Min(detection_i.bbox[4], kept.bbox[4])
        intersection == (x2_min - x1_max) * (y2_min - y1_max)
        area_i == (detection_i.bbox[3] - detection_i.bbox[1])
                    * (detection_i.bbox[4] - detection_i.bbox[2])
        area_j == (kept.bbox[3] - kept.bbox[1]) * (kept.bbox[4] - kept.bbox[2])
        union == area_i + area_j - intersection
    IN  /\ x1_max < x2_min
        /\ y1_max < y2_min
        /\ intersection * t.den > t.num * union

\* yolo.rs:75-97: the kept detection suppresses detection_i: same class, the
\* boxes intersect, and intersection > nms_threshold * union
Suppresses(kept, detection_i, t) ==
    /\ kept.class = detection_i.class
    /\ Suppresses_AnyClass(kept, detection_i, t)

\* the inner loop comparing with the last kept detection only
ShouldKeep_LastOnly(dets, write_idx, detection_i, t) ==
    write_idx = 0 \/ ~Suppresses(dets[write_idx], detection_i, t)

\* yolo.rs:69-98: should_keep after the inner loop over the kept detections,
\* which are the first write_idx entries of the vector
ShouldKeep(dets, write_idx, detection_i, t) ==
    \A j \in 1..write_idx : ~Suppresses(dets[j], detection_i, t)

\* yolo.rs:65-108: the scan from index i, in place, then truncate(write_idx)
RECURSIVE NmsLoop(_, _, _, _)
NmsLoop(dets, i, write_idx, t) ==
    IF i > Len(dets)
    THEN SubSeq(dets, 1, write_idx)
    ELSE IF ShouldKeep(dets, write_idx, dets[i], t)
         THEN NmsLoop([dets EXCEPT ![write_idx + 1] = dets[i]], i + 1, write_idx + 1, t)
         ELSE NmsLoop(dets, i + 1, write_idx, t)

\* yolo.rs:55-63: bbox_nms returns at once on at most one detection, and sorts
\* otherwise
NmsSort ==
    /\ codecPc = "nms_sort"
    /\ IF Len(detections) <= 1
       THEN /\ candidates' = [candidates EXCEPT !.visited = detections]
            /\ codecPc' = "nms_done"
            /\ UNCHANGED detections
       ELSE \E s \in SortUnstable(detections) :
                /\ detections' = s
                /\ candidates' = [candidates EXCEPT !.visited = s]
                /\ codecPc' = "nms_scan"
    /\ UNCHANGED <<frame, precision, raw_results, output_shape, pred_conf_threshold,
                   nms_threshold, decoded, codecResult, letterbox, pre_frame,
                   reads, crop, nonCodecVars>>

\* yolo.rs:65-108
NmsScan ==
    /\ codecPc = "nms_scan"
    /\ detections' = NmsLoop(detections, 1, 0, nms_threshold)
    /\ codecPc' = "nms_done"
    /\ UNCHANGED <<frame, precision, raw_results, output_shape, pred_conf_threshold,
                   nms_threshold, candidates, decoded, codecResult, letterbox, pre_frame,
                   reads, crop, nonCodecVars>>

\* a call of bbox_nms on any vector of at most MaxDetections detections
NmsInit ==
    /\ PipelineOff
    /\ codecPc = "nms_sort"
    /\ frame = [height |-> 0, width |-> 0, len |-> 0]
    /\ precision = "FP32"
    /\ raw_results = [len |-> 0, data |-> <<>>]
    /\ output_shape = <<>>
    /\ pred_conf_threshold = 0
    /\ nms_threshold \in Thresholds
    /\ detections \in SeqsUpTo(ResultBBOX, MaxDetections)
    /\ candidates = [input |-> detections, visited |-> <<>>]
    /\ decoded = 0
    /\ reads = [max |-> -1, oob |-> FALSE]
    /\ crop = CropIdle
    /\ codecResult = "none"
    /\ pre_frame = [len |-> 0, written |-> 0]
    /\ letterbox = <<>>

NmsNext ==
    \/ NmsSort
    \/ NmsScan

NmsSpec == NmsInit /\ [][NmsNext]_vars

----------------------------------------------------------------------------
(* postprocess (yolo.rs:120-285).  inv_scale is the fraction inv_num / inv_den
   in lowest terms, and a coordinate of a decoded bbox is kept in units of
   1/(2 * inv_den) pixel, which makes the inverse letterbox exact; a score
   counts halves (2 is the score 1.0). *)

TARGET_SIZE == 640

RECURSIVE GCD(_, _)
GCD(a, b) == IF b = 0 THEN a ELSE GCD(b, a % b)

\* f32 arithmetic on positive values: a value is m * 2^e with a mantissa of
\* at most 24 bits
RECURSIVE Pow2(_)
Pow2(n) == IF n <= 0 THEN 1 ELSE 2 * Pow2(n - 1)

RECURSIVE BitLen(_)
BitLen(n) == IF n = 0 THEN 0 ELSE 1 + BitLen(n \div 2)

\* the quotient's bits, one per step, until the mantissa has 24 of them
RECURSIVE DivBits(_, _, _, _)
DivBits(q, r, d, e) ==
    IF q >= Pow2(23) THEN [q |-> q, r |-> r, e |-> e]
    ELSE DivBits(2 * q + (IF 2 * r >= d THEN 1 ELSE 0),
                 IF 2 * r >= d THEN 2 * r - d ELSE 2 * r, d, e - 1)

\* a / b in f32 for positive integers below 2^15: the value m * 2^e, rounded
\* to the nearest 24-bit mantissa, ties to even
F32Div(a, b) ==
    LET s == DivBits(a \div b, a % b, b, 0)
        up == 2 * s.r > b \/ (2 * s.r = b /\ s.q % 2 = 1)
        q == IF up THEN s.q + 1 ELSE s.q
    IN  IF q = Pow2(24) THEN [m |-> Pow2(23), e |-> s.e + 1] ELSE [m |-> q, e |-> s.e]

\* w * s in f32 for an integer w below 2^13: the exact product, held as
\* A * 4096 + B, rounded to 24 bits
F32MulInt(w, s) ==
    LET X == w * (s.m \div 4096)
        Y == w * (s.m % 4096)
        A == X + Y \div 4096
        B == Y % 4096
        bits == IF A = 0 THEN BitLen(B) ELSE BitLen(A) + 12
        shift == IF bits > 24 THEN bits - 24 ELSE 0
        kept == IF shift = 0 THEN A * 4096 + B
                ELSE IF shift <= 12 THEN A * Pow2(12 - shift) + B \div Pow2(shift)
                ELSE A \div Pow2(shift - 12)
        rem == IF shift = 0 THEN 0
               ELSE IF shift <= 12 THEN B % Pow2(shift)
               ELSE (A % Pow2(shift - 12)) * 4096 + B
        half == IF shift = 0 THEN 1 ELSE Pow2(shift - 1)
        up == rem > half \/ (rem = half /\ kept % 2 = 1)
    IN  [m |-> IF up THEN kept + 1 ELSE kept, e |-> s.e + shift]

\* `as usize` of a non-negative f32: the integer part
F32ToUsize(v) ==
    IF v.e >= 0 THEN v.m * Pow2(v.e)
    ELSE IF -v.e > 30 THEN 0
    ELSE v.m \div Pow2(-v.e)

\* yolo.rs:36-41: (dim as f32 * scale) as usize with scale = target_size as f32 /
\* max_dim, both operations rounded to f32
ScaledDim(dim, max_dim, target_size) ==
    IF dim = 0 THEN 0 ELSE F32ToUsize(F32MulInt(dim, F32Div(target_size, max_dim)))

\* yolo.rs:30-50: calculate_letterbox, with inv_scale = inv_num / inv_den.  On a
\* frame without pixels max_dim is 0, scale is infinite and the casts of the
\* NaN products give new_width = new_height = 0
calculate_letterbox(height, width, target_size) ==
    LET max_dim == Max(height, width)
        new_width == IF max_dim = 0 THEN 0
                     ELSE Min(ScaledDim(width, max_dim, target_size), target_size)
        new_height == IF max_dim = 0 THEN 0
                      ELSE Min(ScaledDim(height, max_dim, target_size), target_size)
    IN  [pad_x |-> (target_size - new_width) \div 2,
         pad_y |-> (target_size - new_height) \div 2,
         new_width |-> new_width,
         new_height |-> new_height,
         inv_num |-> max_dim \div GCD(max_dim, target_size),
         inv_den |-> target_size \div GCD(max_dim, target_size)]

\* yolo.rs:143-146: bytes of one element
SizeOf(p) == IF p = "FP16" THEN 2 ELSE 4

\* yolo.rs:143-146
ExpectedSize(target_features, target_anchors, p) ==
    target_anchors * target_features * SizeOf(p)

\* the length test accepting an output that is too long
SizeMismatch_ShortOnly(len, expected_size) == len < expected_size

\* yolo.rs:148: results.len() != expected_size
SizeMismatch(len, expected_size) == len # expected_size

\* yolo.rs:196-208 / 251-263: the class with the largest score, the first one
\* on a tie, starting from max_score = 0.0 and max_class = 0
RECURSIVE MaxClass(_, _, _, _, _, _)
MaxClass(data, class_base, stride1, target_classes, class_idx, best) ==
    IF class_idx >= target_classes
    THEN best
    ELSE LET score == data[class_base + class_idx * stride1 + 1]
         IN  MaxClass(data, class_base, stride1, target_classes, class_idx + 1,
                      IF score > best.max_score
                      THEN [max_score |-> score, max_class |-> class_idx]
                      ELSE best)

\* yolo.rs:179-221 / 234-275: the anchor loop from anchor_idx onwards, pushing
\* a detection for every anchor whose best score reaches the threshold.
\* x1 = (x - w/2 - pad_x) * inv_scale, here times 2 * inv_den
RECURSIVE DecodeAnchors(_, _, _, _, _, _, _)
DecodeAnchors(data, target_anchors, target_classes, lb, conf, anchor_idx, dets) ==
    IF anchor_idx >= target_anchors
    THEN dets
    ELSE LET x == data[anchor_idx + 1]
             y == data[target_anchors + anchor_idx + 1]
             w == data[target_anchors * 2 + anchor_idx + 1]
             h == data[target_anchors * 3 + anchor_idx + 1]
             x1 == (2 * x - w - 2 * lb.pad_x) * lb.inv_num
             y1 == (2 * y - h - 2 * lb.pad_y) * lb.inv_num
             x2 == (2 * x + w - 2 * lb.pad_x) * lb.inv_num
             y2 == (2 * y + h - 2 * lb.pad_y) * lb.inv_num
             best == MaxClass(data, target_anchors * 4 + anchor_idx, target_anchors,
                              target_classes, 0, [max_score |-> 0, max_class |-> 0])
         IN  DecodeAnchors(data, target_anchors, target_classes, lb, conf, anchor_idx + 1,
                           IF best.max_score >= conf
                           THEN Append(dets, [bbox |-> <<x1, y1, x2, y2>>,
                                              class |-> best.max_class,
                                              score |-> best.max_score])
                           ELSE dets)

\* yolo.rs:140: target_features - 4 in usize. Below zero a build with overflow
\* checks panics; without them the difference wraps to 2^64 + a - b, kept here
\* as the negative number and marked
UsizeSub(a, b) == [value |-> a - b, wrapped |-> a < b]

\* yolo.rs:128-157: the two validations, and between them the subtraction of
\* line 140
PostValidate ==
    /\ codecPc = "post_call"
    /\ \/ /\ Len(output_shape) # 2
          /\ codecResult' = "err"
          /\ codecPc' = "done"
       \/ /\ Len(output_shape) = 2
          /\ UsizeSub(output_shape[1], 4).wrapped
          /\ codecResult' = "panic"
          /\ codecPc' = "done"
       \/ /\ Len(output_shape) = 2
          /\ LET target_features == output_shape[1]
                 target_anchors == output_shape[2]
                 expected_size == ExpectedSize(target_features, target_anchors, precision)
             IN  IF SizeMismatch(raw_results.len, expected_size)
                 THEN /\ codecResult' = "err"
                      /\ codecPc' = "done"
                 ELSE /\ codecPc' = "post_decode"
                      /\ UNCHANGED codecResult
    /\ UNCHANGED <<frame, precision, raw_results, output_shape, pred_conf_threshold,
                   nms_threshold, candidates, detections, decoded, letterbox, pre_frame,
                   reads, crop, nonCodecVars>>

\* yolo.rs:182-199 / 237-254: the element indices the anchor loop reads with
\* get_unchecked
IndicesRead(target_anchors, target_classes) ==
    {k * target_anchors + a : k \in 0..3, a \in 0..(target_anchors - 1)}
        \cup {(4 + c) * target_anchors + a :
                 c \in 0..(target_classes - 1), a \in 0..(target_anchors - 1)}

LastIndex(S) == IF S = {} THEN -1 ELSE CHOOSE i \in S : \A j \in S : j <= i

\* yolo.rs:159-282: the anchors are decoded; bbox_nms runs on more than one
\* detection. With a wrapped target_classes the class loop of the first anchor
\* runs on past the buffer: the reads beyond it return whatever lies there
\* until one of them faults
PostDecode ==
    /\ codecPc = "post_decode"
    /\ LET target_features == output_shape[1]
           target_anchors == output_shape[2]
           target_classes == UsizeSub(target_features, 4)
           lb == calculate_letterbox(frame.height, frame.width, TARGET_SIZE)
       IN  IF target_classes.wrapped /\ target_anchors > 0
           THEN /\ \E i \in {k * target_anchors : k \in 0..5} :
                      /\ i >= target_features * target_anchors
                      /\ reads' = [max |-> i, oob |-> TRUE]
                /\ codecResult' = "fault"
                /\ codecPc' = "done"
                /\ UNCHANGED <<detections, decoded, candidates>>
           ELSE LET dets == DecodeAnchors(raw_results.data, target_anchors,
                                          target_classes.value, lb, pred_conf_threshold,
                                          0, <<>>)
                IN  /\ detections' = dets
                    /\ decoded' = target_anchors
                    /\ reads' = [max |-> LastIndex(IndicesRead(target_anchors,
                                                               target_classes.value)),
                                 oob |-> FALSE]
                    /\ candidates' = [input |-> dets, visited |-> <<>>]
                    /\ codecPc' = IF Len(dets) > 1 THEN "nms_sort" ELSE "post_return"
                    /\ UNCHANGED codecResult
    /\ UNCHANGED <<frame, precision, raw_results, output_shape, pred_conf_threshold,
                   nms_threshold, letterbox, pre_frame, crop, nonCodecVars>>

\* yolo.rs:284: Ok(detections)
PostReturn ==
    /\ codecPc \in {"post_return", "nms_done"}
    /\ codecResult' = "ok"
    /\ codecPc' = "done"
    /\ UNCHANGED <<frame, precision, raw_results, output_shape, pred_conf_threshold,
                   nms_threshold, candidates, detections, decoded, letterbox, pre_frame,
                   reads, crop, nonCodecVars>>

\* what the model can put out for one anchor, in letterbox pixels: a box in
\* the middle of the tensor, of width 100 or 0 with the score 0.5 or of width
\* 800 with the score 1.5, for one class (0 for the others)
RawAnchors(target_classes) ==
    {r \in [x : {320}, y : {320}, w : {100, 0, 800}, h : {100},
            top : 0..(target_classes - 1), score : {1, 3}] :
        r.score = 3 <=> r.w = 800}

\* the [features, anchors] tensor of the anchors, features-major
Tensor(anchors, target_classes) ==
    LET A == Len(anchors)
        Value(f, a) ==
            CASE f = 0 -> anchors[a].x
              [] f = 1 -> anchors[a].y
              [] f = 2 -> anchors[a].w
              [] f = 3 -> anchors[a].h
              [] OTHER -> IF f - 4 = anchors[a].top THEN anchors[a].score ELSE 0
    IN  [i \in 1..((4 + target_classes) * A) |-> Value((i - 1) \div A, ((i - 1) % A) + 1)]

FrameSizes == {[height |-> 640, width |-> 640], [height |-> 1080, width |-> 1920]}

\* a call of postprocess: a declared shape of one, two or three dimensions, a
\* raw output one byte short of it, of its length or one byte longer
PostInit ==
    /\ codecPc = "post_call"
    /\ \E s \in FrameSizes :
          frame = [height |-> s.height, width |-> s.width, len |-> s.height * s.width * 3]
    /\ precision \in {"FP16", "FP32"}
    /\ pred_conf_threshold \in {0, 2}
    /\ nms_threshold = [num |-> 2, den |-> 4]
    /\ \E C \in 1..MaxClasses, A \in 1..MaxAnchors, delta \in {-1, 0, 1} :
          \E anchors \in [1..A -> RawAnchors(C)] :
              /\ output_shape \in {<<4 + C, A>>, <<4 + C>>, <<1, 4 + C, A>>}
              /\ raw_results = [len |-> ExpectedSize(4 + C, A, precision) + delta,
                                data |-> Tensor(anchors, C)]
    /\ candidates = [input |-> <<>>, visited |-> <<>>]
    /\ detections = <<>>
    /\ decoded = 0
    /\ reads = [max |-> -1, oob |-> FALSE]
    /\ crop = CropIdle
    /\ codecResult = "none"
    /\ pre_frame = [len |-> 0, written |-> 0]
    /\ letterbox = <<>>
    /\ PipelineOff

PostNext ==
    \/ PostValidate
    \/ PostDecode
    \/ NmsSort
    \/ NmsScan
    \/ PostReturn

PostSpec == PostInit /\ [][PostNext]_vars

\* class scores a raw output can hold, in halves: -0.5, 0 and 0.5
RawScores == {-1, 0, 1}

\* the [features, anchors] tensor of anchors that all lie in the middle of the
\* letterbox, with the class scores of scores[a]
RawTensor(target_features, target_anchors, scores) ==
    [i \in 1..(target_features * target_anchors) |->
        LET f == (i - 1) \div target_anchors
            a == ((i - 1) % target_anchors) + 1
        IN  CASE f \in {0, 1} -> 320
              [] f \in {2, 3} -> 100
              [] OTHER -> scores[a][f - 3]]

\* a call of postprocess on a raw output of exactly the declared length, for
\* shapes of 0 to 4 + MaxClasses features and 0 to MaxAnchors anchors
PostRawInit ==
    /\ codecPc = "post_call"
    /\ frame = [height |-> 640, width |-> 640, len |-> 640 * 640 * 3]
    /\ precision \in {"FP16", "FP32"}
    /\ pred_conf_threshold \in {0, 1}
    /\ nms_threshold = [num |-> 2, den |-> 4]
    /\ \E F \in 0..(4 + MaxClasses), A \in 0..MaxAnchors :
          \E scores \in [1..A -> [1..Max(F - 4, 0) -> RawScores]] :
              /\ output_shape = <<F, A>>
              /\ raw_results = [len |-> ExpectedSize(F, A, precision),
                                data |-> RawTensor(F, A, scores)]
    /\ candidates = [input |-> <<>>, visited |-> <<>>]
    /\ detections = <<>>
    /\ decoded = 0
    /\ reads = [max |-> -1, oob |-> FALSE]
    /\ crop = CropIdle
    /\ codecResult = "none"
    /\ pre_frame = [len |-> 0, written |-> 0]
    /\ letterbox = <<>>
    /\ PipelineOff

PostRawSpec == PostRawInit /\ [][PostNext]_vars

----------------------------------------------------------------------------
(* The letterbox of a frame, as pre-processing lays it out and as
   post-processing takes it back, in the two YOLO codecs of the repository:
   processing/yolo.rs (calculate_letterbox on both sides) and processing.rs
   (preprocess_yolo against calculate_letterbox_fast).  Pads and inv_scale
   are fractions in lowest terms. *)

Abs(n) == IF n < 0 THEN -n ELSE n
Rat(n, d) == [num |-> n \div GCD(Abs(n), d), den |-> d \div GCD(Abs(n), d)]

\* yolo.rs:30-50 as fractions
LetterboxYolo(height, width) ==
    LET lb == calculate_letterbox(height, width, TARGET_SIZE)
    IN  [pad_x |-> Rat(lb.pad_x, 1), pad_y |-> Rat(lb.pad_y, 1),
         inv_scale |-> Rat(lb.inv_num, lb.inv_den)]

\* processing.rs:402-410: the letterbox preprocess_yolo computes inline, for
\* input_shape[1] = 640: scale = target_size / max(height, width), the new
\* sizes are cast to usize, the pads are shifted right, inv_scale = 1 / scale
LetterboxPreprocessYolo(height, width) ==
    LET target_size == TARGET_SIZE
        max_dim == Max(height, width)
        new_width == Min((width * target_size) \div max_dim, target_size)
        new_height == Min((height * target_size) \div max_dim, target_size)
    IN  [pad_x |-> Rat((target_size - new_width) \div 2, 1),
         pad_y |-> Rat((target_size - new_height) \div 2, 1),
         inv_scale |-> Rat(max_dim, target_size)]

\* processing.rs:65-78: calculate_letterbox_fast, scale = 640 * min(1/w, 1/h),
\* pad = 320 - size * scale * 0.5 (not rounded), inv_scale = 1 / scale
calculate_letterbox_fast(height, width) ==
    LET max_dim == Max(height, width)
    IN  [pad_x |-> Rat(TARGET_SIZE * (max_dim - width), 2 * max_dim),
         pad_y |-> Rat(TARGET_SIZE * (max_dim - height), 2 * max_dim),
         inv_scale |-> Rat(max_dim, TARGET_SIZE)]

\* the letterbox of pre-processing and of post-processing in each codec
PreLetterbox(variant, height, width) ==
    IF variant = "yolo.rs" THEN LetterboxYolo(height, width)
    ELSE LetterboxPreprocessYolo(height, width)
PostLetterbox(variant, height, width) ==
    IF variant = "yolo.rs" THEN LetterboxYolo(height, width)
    ELSE calculate_letterbox_fast(height, width)

\* yolo.rs:323-331, processing.rs:417-425: the pixel at offset d of the active
\* region shows the source pixel d * inv_scale, so the source coordinate c
\* lies at pad + c / inv_scale in the tensor
Forward(pad, inv_scale, c) ==
    Rat(pad.num * inv_scale.num + c * inv_scale.den * pad.den, pad.den * inv_scale.num)

\* yolo.rs:190-193, processing.rs:199-202: (v - pad) * inv_scale
Inverse(pad, inv_scale, v) ==
    Rat((v.num * pad.den - pad.num * v.den) * inv_scale.num,
        v.den * pad.den * inv_scale.den)

\* pre-processing lays the frame out and the corner with it
LetterboxForward ==
    /\ codecPc = "lb_call"
    /\ LET pre == PreLetterbox(letterbox.variant, frame.height, frame.width)
       IN  letterbox' = [letterbox EXCEPT
                            !.pre = pre,
                            !.fwd = <<Forward(pre.pad_x, pre.inv_scale, letterbox.point[1]),
                                      Forward(pre.pad_y, pre.inv_scale, letterbox.point[2])>>]
    /\ codecPc' = "lb_forward"
    /\ UNCHANGED <<frame, precision, raw_results, output_shape, pred_conf_threshold,
                   nms_threshold, candidates, detections, decoded, codecResult, pre_frame,
                   reads, crop, nonCodecVars>>

\* post-processing takes the corner back to the frame
LetterboxInverse ==
    /\ codecPc = "lb_forward"
    /\ LET post == PostLetterbox(letterbox.variant, frame.height, frame.width)
       IN  letterbox' = [letterbox EXCEPT
                            !.post = post,
                            !.back = <<Inverse(post.pad_x, post.inv_scale, letterbox.fwd[1]),
                                       Inverse(post.pad_y, post.inv_scale, letterbox.fwd[2])>>]
    /\ codecPc' = "lb_done"
    /\ UNCHANGED <<frame, precision, raw_results, output_shape, pred_conf_threshold,
                   nms_threshold, candidates, detections, decoded, codecResult, pre_frame,
                   reads, crop, nonCodecVars>>

\* frames of up to MaxDim pixels a side and four camera formats; a corner of
\* a box at the border or in the middle of the frame
LetterboxSizes ==
    [height : 1..MaxDim, width : 1..MaxDim]
        \cup {[height |-> 640, width |-> 640], [height |-> 1080, width |-> 1920],
              [height |-> 999, width |-> 1920], [height |-> 2160, width |-> 3840]}

LetterboxInit ==
    /\ codecPc = "lb_call"
    /\ \E s \in LetterboxSizes :
          /\ frame = [height |-> s.height, width |-> s.width, len |-> s.height * s.width * 3]
          /\ \E variant \in {"yolo.rs", "processing.rs"},
                px \in {0, s.width \div 2, s.width}, py \in {0, s.height \div 2, s.height} :
                letterbox = [variant |-> variant, point |-> <<px, py>>, pre |-> <<>>,
                             fwd |-> <<>>, post |-> <<>>, back |-> <<>>]
    /\ precision = "FP32"
    /\ raw_results = [len |-> 0, data |-> <<>>]
    /\ output_shape = <<>>
    /\ pred_conf_threshold = 0
    /\ nms_threshold = 0
    /\ candidates = [input |-> <<>>, visited |-> <<>>]
    /\ detections = <<>>
    /\ decoded = 0
    /\ reads = [max |-> -1, oob |-> FALSE]
    /\ crop = CropIdle
    /\ codecResult = "none"
    /\ pre_frame = [len |-> 0, written |-> 0]
    /\ PipelineOff

LetterboxNext ==
    \/ LetterboxForward
    \/ LetterboxInverse

LetterboxSpec == LetterboxInit /\ [][LetterboxNext]_vars

----------------------------------------------------------------------------
(* preprocess (yolo.rs:295-348) with its two back ends, preprocess_avx2 and
   preprocess_scalar, chosen by the CPU the process runs on. *)

TARGET_PIXELS == TARGET_SIZE * TARGET_SIZE

\* yolo.rs:324, 330: the source row or column shown at offset i of the active
\* region, ((i as f32 * inv_scale) as usize).min(size - 1)
SrcIndex(i, lb, size) == Min((i * lb.inv_num) \div lb.inv_den, size - 1)

\* yolo.rs:371-391, 407-426: the largest byte offset of the frame data the
\* copy loops read, -1 when they read nothing
LastRead(lb, height, width) ==
    IF lb.new_height = 0 \/ lb.new_width = 0
    THEN -1
    ELSE LET rows == {SrcIndex(y, lb, height) : y \in 0..(lb.new_height - 1)}
             cols == {SrcIndex(x, lb, width) : x \in 0..(lb.new_width - 1)}
             row == CHOOSE r \in rows : \A q \in rows : q <= r
             col == CHOOSE c \in cols : \A q \in cols : q <= c
         IN  row * width * 3 + col * 3 + 2

\* yolo.rs:325 with 371-391, 407-426: the largest element offset of a plane
\* the copy loops write, y_dst_offsets[y] + x, -1 when they write nothing
LastWritten(lb) ==
    IF lb.new_height = 0 \/ lb.new_width = 0
    THEN -1
    ELSE (lb.new_height - 1 + lb.pad_y) * TARGET_SIZE + lb.pad_x + lb.new_width - 1

\* the Vec<u16> / Vec<f32> handed back with its length in elements
TransmuteLen_Elements(elements, p) == elements

\* yolo.rs:394-397, 429-432: the Vec<u16> / Vec<f32> of the scalar back end
\* becomes a Vec<u8> of len * 2 or len * 4 bytes
TransmuteLen(elements, p) == elements * SizeOf(p)

\* yolo.rs:455-456, 546-547 (total_bytes) and 365, 401 with 394-397, 429-432
OutputBytes(backend, p) ==
    IF backend = "avx2"
    THEN TARGET_PIXELS * 3 * SizeOf(p)
    ELSE TransmuteLen(TARGET_PIXELS * 3, p)

\* yolo.rs:299-309: the length of the frame data is checked
PreValidate ==
    /\ codecPc = "pre_call"
    /\ LET frame_target_size == frame.height * frame.width * 3
       IN  IF frame.len # frame_target_size
           THEN /\ codecResult' = "err"
                /\ codecPc' = "done"
           ELSE /\ codecPc' = "pre_fill"
                /\ UNCHANGED codecResult
    /\ UNCHANGED <<frame, precision, raw_results, output_shape, pred_conf_threshold,
                   nms_threshold, candidates, detections, decoded, letterbox, pre_frame,
                   reads, crop, nonCodecVars>>

\* yolo.rs:311-347: the letterbox, the offset tables, and the back end that
\* fills the gray tensor with the resampled frame
PreFill(backend) ==
    /\ codecPc = "pre_fill"
    /\ LET lb == calculate_letterbox(frame.height, frame.width, TARGET_SIZE)
       IN  IF LastRead(lb, frame.height, frame.width) >= frame.len
           THEN /\ codecResult' = "fault"
                /\ UNCHANGED pre_frame
           ELSE /\ codecResult' = "ok"
                /\ pre_frame' = [len |-> OutputBytes(backend, precision),
                                 written |-> lb.new_height * lb.new_width,
                                 lb |-> lb,
                                 last_dst |-> LastWritten(lb),
                                 last_src |-> LastRead(lb, frame.height, frame.width)]
    /\ codecPc' = "done"
    /\ UNCHANGED <<frame, precision, raw_results, output_shape, pred_conf_threshold,
                   nms_threshold, candidates, detections, decoded, letterbox, reads, crop, nonCodecVars>>

\* frames of the sizes cameras deliver, and three small ones
PreSizes ==
    {[height |-> 640, width |-> 640], [height |-> 1080, width |-> 1920],
     [height |-> 299, width |-> 299], [height |-> 69, width |-> 92],
     [height |-> 276, width |-> 368]}

\* a call of preprocess on a frame of 0..MaxDim pixels a side, or of one of
\* PreSizes, whose data is empty, a byte short, as long as height * width * 3,
\* or a byte longer
PreInit ==
    /\ codecPc = "pre_call"
    /\ \E size \in [height : 0..MaxDim, width : 0..MaxDim] \cup PreSizes :
          LET height == size.height
              width == size.width
          IN  \E len \in {0, height * width * 3 - 1, height * width * 3,
                           height * width * 3 + 1} :
                  /\ len >= 0
                  /\ frame = [height |-> height, width |-> width, len |-> len]
    /\ precision \in {"FP16", "FP32"}
    /\ raw_results = [len |-> 0, data |-> <<>>]
    /\ output_shape = <<>>
    /\ pred_conf_threshold = 0
    /\ nms_threshold = 0
    /\ candidates = [input |-> <<>>, visited |-> <<>>]
    /\ detections = <<>>
    /\ decoded = 0
    /\ reads = [max |-> -1, oob |-> FALSE]
    /\ crop = CropIdle
    /\ codecResult = "none"
    /\ pre_frame = [len |-> 0, written |-> 0]
    /\ letterbox = <<>>
    /\ PipelineOff

PreNext ==
    \/ PreValidate
    \/ \E backend \in {"avx2", "scalar"} : PreFill(backend)

PreSpec == PreInit /\ [][PreNext]_vars

----------------------------------------------------------------------------
(* preprocess_bboxes (processing/dino.rs:94-162): the crop of every bounding
   box out of the frame.  Coordinates are f32 values: a number of half pixels
   (3 is 1.5), or NaN.  One action is one turn of the loop over the
   boxes; the boxes of the Vec are drawn as the loop reaches them. *)

MaxBoxes == 2        \* boxes handed to one call
MaxCropDim == 2      \* height and width of the frames cropped, in pixels

\* the f32 values a coordinate takes
NaN == [nan |-> TRUE, half |-> 0]
Halves(h) == [nan |-> FALSE, half |-> h]

\* f32::max(0.0) and f32::min(bound): the other operand when one is NaN
F32Max0(v) == IF v.nan THEN 0 ELSE Max(v.half, 0)
F32MinBound_Unclamped(v, bound) == IF v.nan THEN 2 * bound ELSE v.half
F32MinBound(v, bound) == IF v.nan THEN 2 * bound ELSE Min(v.half, 2 * bound)

\* `as u32` of an f32 in half pixels: truncation toward zero, negatives give 0
F32AsU32(v) == IF v < 0 THEN 0 ELSE v \div 2

\* u32::saturating_sub
saturating_sub(a, b) == IF a > b THEN a - b ELSE 0

\* dino.rs:107-115: the corners and the dimensions of the box inside the frame
ClampBox(bbox, f) ==
    LET x1 == F32AsU32(F32Max0(bbox[1]))
        y1 == F32AsU32(F32Max0(bbox[2]))
        x2 == F32AsU32(F32MinBound(bbox[3], f.width))
        y2 == F32AsU32(F32MinBound(bbox[4], f.height))
    IN  [x1 |-> x1, y1 |-> y1, x2 |-> x2, y2 |-> y2,
         bbox_width |-> saturating_sub(x2, x1),
         bbox_height |-> saturating_sub(y2, y1)]

\* dino.rs:126-137: the byte range frame.data[row_start..row_end] of row y
RowRange(c, f, y) ==
    LET frame_stride == f.width * 3
        row_offset == y * frame_stride
    IN  [row_start |-> row_offset + c.x1 * 3, row_end |-> row_offset + c.x2 * 3]

\* the rows of the box whose slice is taken: every row up to the first one
\* whose range ends beyond the data, that one included (its slice panics)
RowsTried(c, f) ==
    {y \in c.y1..(c.y2 - 1) :
        \A z \in c.y1..(y - 1) : RowRange(c, f, z).row_end <= f.len}

\* the spans one axis of a box is drawn from: across the whole frame and
\* beyond, half a pixel to one and a half, empty, inverted, NaN, and beyond
\* the far edge
CropSpans ==
    {<<Halves(-1), Halves(2 * MaxCropDim + 3)>>, <<Halves(1), Halves(3)>>,
     <<Halves(2), Halves(2)>>, <<Halves(3), Halves(1)>>, <<NaN, NaN>>,
     <<Halves(2 * MaxCropDim + 1), Halves(2 * MaxCropDim + 3)>>}
CropBoxes == {<<h[1], v[1], h[2], v[2]>> : h \in CropSpans, v \in CropSpans}

\* dino.rs:106-159: one turn of the loop.  A box with no width or no height
\* bails; the rows are sliced out of frame.data, and a slice that ends beyond
\* the data panics; the crop is resized (resized_ok is what the resize
\* returned) and its tensor pushed.
CropBox(bbox, resized_ok) ==
    /\ crop.pc = "loop"
    /\ Len(crop.results) < crop.n
    /\ LET c == ClampBox(bbox, frame)
           tried == RowsTried(c, frame)
           expected_size == c.bbox_width * c.bbox_height * 3
           cropped_len == Cardinality(tried) * (c.x2 - c.x1) * 3
           read == IF tried = {} THEN [lo |-> -1, hi |-> -1]
                   ELSE [lo |-> RowRange(c, frame, c.y1).row_start,
                         hi |-> RowRange(c, frame,
                                         CHOOSE y \in tried : \A z \in tried : z <= y).row_end]
       IN  IF c.bbox_width = 0 \/ c.bbox_height = 0
           THEN crop' = [crop EXCEPT !.bbox = bbox, !.pc = "done", !.outcome = "err",
                                     !.read = [lo |-> -1, hi |-> -1]]
           ELSE IF read.hi > frame.len
           THEN crop' = [crop EXCEPT !.bbox = bbox, !.pc = "done", !.outcome = "panic",
                                     !.read = read]
           ELSE IF cropped_len # expected_size \/ ~resized_ok
           THEN crop' = [crop EXCEPT !.bbox = bbox, !.pc = "done", !.outcome = "err",
                                     !.read = read]
           ELSE crop' = [crop EXCEPT !.bbox = bbox, !.read = read,
                                     !.results = Append(@, [box |-> Len(@) + 1,
                                                            height |-> c.bbox_height,
                                                            width |-> c.bbox_width,
                                                            from |-> read.lo])]
    /\ UNCHANGED <<codecPc, frame, precision, raw_results, output_shape,
                   pred_conf_threshold, nms_threshold, candidates, detections, decoded,
                   codecResult, pre_frame, letterbox, reads, nonCodecVars>>

\* dino.rs:161: Ok(results) once the loop has run over every box
CropReturn ==
    /\ crop.pc = "loop"
    /\ Len(crop.results) = crop.n
    /\ crop' = [crop EXCEPT !.pc = "done", !.outcome = "ok"]
    /\ UNCHANGED <<codecPc, frame, precision, raw_results, output_shape,
                   pred_conf_threshold, nms_threshold, candidates, detections, decoded,
                   codecResult, pre_frame, letterbox, reads, nonCodecVars>>

\* a call of preprocess_bboxes with 0..MaxBoxes boxes on a frame of
\* 0..MaxCropDim pixels a side whose data is as long as height * width * 3 (what
\* preprocess has checked before, dino.rs:22-29 and 180-184) or a byte short
CropInit ==
    /\ codecPc = "off"
    /\ \E height \in 0..MaxCropDim, width \in 0..MaxCropDim :
          \E len \in {height * width * 3 - 1, height * width * 3} :
              /\ len >= 0
              /\ frame = [height |-> height, width |-> width, len |-> len]
    /\ precision \in {"FP16", "FP32"}
    /\ raw_results = [len |-> 0, data |-> <<>>]
    /\ output_shape = <<>>
    /\ pred_conf_threshold = 0
    /\ nms_threshold = 0
    /\ candidates = [input |-> <<>>, visited |-> <<>>]
    /\ detections = <<>>
    /\ decoded = 0
    /\ reads = [max |-> -1, oob |-> FALSE]
    /\ \E n \in 0..MaxBoxes : crop = [CropIdle EXCEPT !.pc = "loop", !.n = n]
    /\ codecResult = "none"
    /\ pre_frame = [len |-> 0, written |-> 0]
    /\ letterbox = <<>>
    /\ PipelineOff

CropNext ==
    \/ \E bbox \in CropBoxes, resized_ok \in BOOLEAN : CropBox(bbox, resized_ok)
    \/ CropReturn

CropSpec == CropInit /\ [][CropNext]_vars

----------------------------------------------------------------------------
(* The stream receiver of the video player (video-player/library/src/stream.rs)
   for one source: the monitor task of start_source_monitor, the session
   consume_stream runs (its keepalive task, its blocking decode task and the
   select over the two), and the backend whose status both tasks poll.
   stream.dec[s] is a decode task with the stop signal it was given and the
   source_stopped calls it has made; stream.cur is the task of the session
   under way.  A packet that is decoded and handed to source_frames leaves
   the state as it is. *)

nonStreamVars == <<queueVars, pc, item, permits, tasks, statVars, inf_frame, calls,
                   histVars, raw_inputs, max_batch_size, inferPc, chunkTasks, completed,
                   all_results, supervisorVars, codecVars, reportVars, publisher>>

\* stream.rs:108-113, 115-121, 205: init_sources spawns the monitor task
init_sources ==
    /\ stream.mon = "off"
    /\ stream' = [stream EXCEPT !.mon = "top"]
    /\ UNCHANGED nonStreamVars

\* stream.rs:86-102
set_callbacks ==
    /\ ~stream.callbacks
    /\ stream' = [stream EXCEPT !.callbacks = TRUE]
    /\ UNCHANGED nonStreamVars

\* the backend behind get_stream_status (player_proxy.rs:56-80): it starts the
\* stream under a new pid, stops it, or restarts it under a new pid
BackendStart ==
    /\ ~stream.backend.is_streaming
    /\ stream.backend.changes < MaxChanges
    /\ stream' = [stream EXCEPT !.backend = [is_streaming |-> TRUE,
                                             pid |-> @.changes + 1,
                                             changes |-> @.changes + 1]]
    /\ UNCHANGED nonStreamVars

BackendStop ==
    /\ stream.backend.is_streaming
    /\ stream.backend.changes < MaxChanges
    /\ stream' = [stream EXCEPT !.backend = [is_streaming |-> FALSE,
                                             pid |-> 0,
                                             changes |-> @.changes + 1]]
    /\ UNCHANGED nonStreamVars

BackendRestart ==
    /\ stream.backend.is_streaming
    /\ stream.backend.changes < MaxChanges
    /\ stream' = [stream EXCEPT !.backend = [is_streaming |-> TRUE,
                                             pid |-> @.changes + 1,
                                             changes |-> @.changes + 1]]
    /\ UNCHANGED nonStreamVars

\* stream.rs:134-150: no callbacks registered, sleep and continue
MonitorNoCallbacks ==
    /\ stream.mon = "top"
    /\ ~stream.callbacks
    /\ stream' = [stream EXCEPT !.mon = "wait"]
    /\ UNCHANGED nonStreamVars

\* stream.rs:153, 193-201: get_stream_status failed
MonitorStatusFailed ==
    /\ stream.mon = "top"
    /\ stream.callbacks
    /\ stream' = [stream EXCEPT !.mon = "retry"]
    /\ UNCHANGED nonStreamVars

\* stream.rs:155-160: the backend is not streaming
MonitorNotStreaming ==
    /\ stream.mon = "top"
    /\ stream.callbacks
    /\ ~stream.backend.is_streaming
    /\ stream' = [stream EXCEPT !.mon = "wait"]
    /\ UNCHANGED nonStreamVars

\* stream.rs:163-172: the status carries no 'udp' block
MonitorNoUdp ==
    /\ stream.mon = "top"
    /\ stream.callbacks
    /\ stream.backend.is_streaming
    /\ stream' = [stream EXCEPT !.mon = "wait"]
    /\ UNCHANGED nonStreamVars

\* a decode task slot that is free or whose task has returned
Reusable(s) == stream.dec[s].pc \in {"free", "done"}

\* stream.rs:174-188 and consume_stream, 218-258: the stream is active; a new
\* stop signal, the keepalive task and the decode task are created and the
\* monitor waits in the select
MonitorConsume ==
    /\ stream.mon = "top"
    /\ stream.callbacks
    /\ stream.backend.is_streaming
    /\ \E s \in Slots :
          /\ Reusable(s)
          /\ \A z \in Slots : Reusable(z) => s <= z
          /\ stream' = [stream EXCEPT !.mon = "select",
                                      !.cur = s,
                                      !.stream_pid = stream.backend.pid,
                                      !.ka = "sleep",
                                      !.dec[s] = [pc |-> "connect", attempt |-> 1,
                                                  stop_signal |-> FALSE, stopped |-> 0]]
    /\ UNCHANGED nonStreamVars

\* stream.rs:147, 159, 170, 201: sleep(STREAM_TIMEOUT) is over, the loop turns
MonitorRetry ==
    /\ stream.mon \in {"wait", "retry"}
    /\ stream' = [stream EXCEPT !.mon = "top"]
    /\ UNCHANGED nonStreamVars

\* stream.rs:232-233: the keepalive task's sleep of 2 seconds is over
KeepaliveWake ==
    /\ stream.ka = "sleep"
    /\ stream' = [stream EXCEPT !.ka = "check"]
    /\ UNCHANGED nonStreamVars

\* stream.rs:235-250: the keepalive task reads the status; it returns when the
\* backend is not streaming or the pid is not the session's, and sleeps again
\* otherwise or when the request failed
KeepaliveCheck(status_ok) ==
    /\ stream.ka = "check"
    /\ stream' = [stream EXCEPT !.ka =
                      IF status_ok /\ (\/ ~stream.backend.is_streaming
                                       \/ stream.backend.pid # stream.stream_pid)
                      THEN "returned" ELSE "sleep"]
    /\ UNCHANGED nonStreamVars

\* stream.rs:261-265, 289: the select takes the decode task's branch, aborts
\* the keepalive task and consume_stream returns Ok
SelectDecode ==
    /\ stream.mon = "select"
    /\ stream.dec[stream.cur].pc = "done"
    /\ stream' = [stream EXCEPT !.mon = "retry",
                                !.ka = IF @ \in {"sleep", "check"} THEN "aborted" ELSE @]
    /\ UNCHANGED nonStreamVars

\* stream.rs:266-277: the select takes the keepalive task's branch and stores
\* the stop signal
SelectKeepalive_NoStore ==
    /\ stream.mon = "select"
    /\ stream.ka = "returned"
    /\ stream' = [stream EXCEPT !.mon = "cleanup"]
    /\ UNCHANGED nonStreamVars

SelectKeepalive ==
    /\ stream.mon = "select"
    /\ stream.ka = "returned"
    /\ stream' = [stream EXCEPT !.mon = "cleanup",
                                !.dec[stream.cur].stop_signal = TRUE]
    /\ UNCHANGED nonStreamVars

\* stream.rs:274-289: the decode task finished within the 5 seconds
CleanupDone ==
    /\ stream.mon = "cleanup"
    /\ stream.dec[stream.cur].pc = "done"
    /\ stream' = [stream EXCEPT !.mon = "retry"]
    /\ UNCHANGED nonStreamVars

\* stream.rs:274-289: the 5 seconds are over; consume_stream returns and the
\* blocking decode task runs on
CleanupTimeout ==
    /\ stream.mon = "cleanup"
    /\ stream.dec[stream.cur].pc # "done"
    /\ stream' = [stream EXCEPT !.mon = "retry"]
    /\ UNCHANGED nonStreamVars

\* decode_stream, stream.rs:322-350: a connection attempt; the third failure
\* returns the error (consume_stream reports DecodeError, lines 255-258)
DecodeConnect(s, connected) ==
    /\ stream.dec[s].pc = "connect"
    /\ stream' = [stream EXCEPT !.dec[s] =
                      IF connected THEN [@ EXCEPT !.pc = "first"]
                      ELSE IF @.attempt < CONNECT_ATTEMPTS
                      THEN [@ EXCEPT !.attempt = @ + 1]
                      ELSE [@ EXCEPT !.pc = "done"]]
    /\ UNCHANGED nonStreamVars

\* process_stream, stream.rs:359-422: up to the first frame.  The loop breaks
\* on the stop signal and the function bails; so it does when the packets end
\* or a set-up step fails; the first frame decoded leads to the main loop.
DecodeFirst(s, got_first_frame) ==
    /\ stream.dec[s].pc = "first"
    /\ stream' = [stream EXCEPT !.dec[s].pc =
                      IF stream.dec[s].stop_signal \/ ~got_first_frame
                      THEN "done" ELSE "main"]
    /\ UNCHANGED nonStreamVars

\* process_stream, stream.rs:450-493: a packet of the main loop at which the
\* loop is left: the stop signal is set, send_packet failed, or the packets
\* have ended
DecodePacket(s, leave) ==
    /\ stream.dec[s].pc = "main"
    /\ stream.dec[s].stop_signal \/ leave
    /\ stream' = [stream EXCEPT !.dec[s].pc = "ended"]
    /\ UNCHANGED nonStreamVars

\* process_stream, stream.rs:495-499: the source_stopped callback and Ok(())
DecodeStopped(s) ==
    /\ stream.dec[s].pc = "ended"
    /\ stream' = [stream EXCEPT !.dec[s] = [@ EXCEPT !.pc = "done",
                                                      !.stopped = @ + 1]]
    /\ UNCHANGED nonStreamVars

StreamInit ==
    /\ CodecOff
    /\ PipelineOff

MonitorStep ==
    \/ MonitorNoCallbacks
    \/ MonitorStatusFailed
    \/ MonitorNotStreaming
    \/ MonitorNoUdp
    \/ MonitorConsume

SelectStep ==
    \/ SelectDecode
    \/ SelectKeepalive

CleanupStep ==
    \/ CleanupDone
    \/ CleanupTimeout

StreamNext ==
    \/ init_sources
    \/ set_callbacks
    \/ BackendStart
    \/ BackendStop
    \/ BackendRestart
    \/ MonitorStep
    \/ MonitorRetry
    \/ KeepaliveWake
    \/ \E status_ok \in BOOLEAN : KeepaliveCheck(status_ok)
    \/ SelectStep
    \/ CleanupStep
    \/ \E s \in Slots, connected \in BOOLEAN : DecodeConnect(s, connected)
    \/ \E s \in Slots, got_first_frame \in BOOLEAN : DecodeFirst(s, got_first_frame)
    \/ \E s \in Slots, leave \in BOOLEAN : DecodePacket(s, leave)
    \/ \E s \in Slots : DecodeStopped(s)

StreamSpec == StreamInit /\ [][StreamNext]_vars

\* the tokio runtime polls a task that is ready: the monitor task at the top
\* of its loop, in its select, in the timeout of the cleanup wait (whose timer
\* fires) and in its sleep.  Nothing is assumed of the backend, of the
\* keepalive requests or of the packets the decode task waits for.
StreamFairSpec ==
    /\ StreamSpec
    /\ WF_vars(MonitorStep)
    /\ WF_vars(SelectStep)
    /\ WF_vars(CleanupStep)
    /\ WF_vars(MonitorRetry)

----------------------------------------------------------------------------
(* The counting section of the per-frame task and the stats reporter, at the
   grain of SourceStats' atomic operations. Tasks and reporter run on the
   workers of a multi_thread runtime (main.rs line 10), so the fetch_adds of
   one task interleave with the reporter's loads and stores. *)

MaxTicks == 2    \* ticks of the reporter's interval
MaxStatFrames == 2   \* frame tasks that reach their counting section

nonStatsVars == <<queueVars, item, permits, inf_frame, calls, admitted, pushed, dropped,
                  received, contended, wasReset, raw_inputs, max_batch_size, inferPc,
                  chunkTasks, completed, all_results, supervisorVars, codecVars,
                  publisher, stream>>

Stages == {"queue", "pre_processing", "inference", "post_processing", "results",
           "processing"}

\* per-frame task, lines 205-209: process_frame_internal returns Ok or Err
\* (frames numbered in the order their tasks get here)
StatsTaskReturn(f, ok) ==
    /\ f \notin DOMAIN tasks
    /\ \A g \in 1..(f - 1) : g \in DOMAIN tasks
    /\ tasks' = [g \in DOMAIN tasks \cup {f} |->
                   IF g = f THEN (IF ok THEN "ret_ok" ELSE "ret_err") ELSE tasks[g]]
    /\ UNCHANGED <<nonStatsVars, pc, statVars, reportVars, failCount, succCount>>

\* per-frame task, line 212: frames_total.fetch_add(1)
StatsCountTotal(f) ==
    /\ f \in DOMAIN tasks
    /\ tasks[f] \in {"ret_ok", "ret_err"}
    /\ frames_total' = frames_total + 1
    /\ tasks' = [tasks EXCEPT ![f] = IF tasks[f] = "ret_ok" THEN "exp_ok" ELSE "exp_err"]
    /\ UNCHANGED <<nonStatsVars, pc, frames_success, frames_failed, time_sums, reportVars,
                   failCount, succCount>>

\* per-frame task, line 213: frames_expected.fetch_add(1)
StatsCountExpected(f) ==
    /\ f \in DOMAIN tasks
    /\ tasks[f] \in {"exp_ok", "exp_err"}
    /\ frames_expected' = frames_expected + 1
    /\ tasks' = [tasks EXCEPT ![f] = IF tasks[f] = "exp_ok" THEN "cnt_ok" ELSE "cnt_err"]
    /\ UNCHANGED <<nonStatsVars, pc, statVars, report, failCount, succCount>>

\* per-frame task, line 216: the Ok arm's frames_success.fetch_add(1)
StatsCountSuccess(f) ==
    /\ f \in DOMAIN tasks
    /\ tasks[f] = "cnt_ok"
    /\ frames_success' = frames_success + 1
    /\ succCount' = [succCount EXCEPT ![f] = @ + 1]
    /\ tasks' = [tasks EXCEPT ![f] = "add"]
    /\ UNCHANGED <<nonStatsVars, pc, frames_total, frames_failed, time_sums, reportVars,
                   failCount>>

\* per-frame task, line 219: the Ok arm's add_stats (its six fetch_adds taken
\* as one step)
StatsAddStats(f) ==
    /\ f \in DOMAIN tasks
    /\ tasks[f] = "add"
    /\ time_sums' = add_stats(time_sums, FrameStats(f))
    /\ tasks' = [tasks EXCEPT ![f] = "end"]
    /\ UNCHANGED <<nonStatsVars, pc, frames_total, frames_success, frames_failed,
                   reportVars, failCount, succCount>>

\* per-frame task, line 222: the Err arm's frames_failed.fetch_add(1)
StatsCountFailed(f) ==
    /\ f \in DOMAIN tasks
    /\ tasks[f] = "cnt_err"
    /\ frames_failed' = frames_failed + 1
    /\ failCount' = [failCount EXCEPT ![f] = @ + 1]
    /\ tasks' = [tasks EXCEPT ![f] = "end"]
    /\ UNCHANGED <<nonStatsVars, pc, frames_total, frames_success, time_sums, reportVars,
                   succCount>>

\* stats reporter, line 265: interval.tick().await returns
ReporterTick ==
    /\ pc["rep"] = "r_idle"
    /\ report.ticks < MaxTicks
    /\ report' = [report EXCEPT !.ticks = @ + 1]
    /\ pc' = [pc EXCEPT !["rep"] = "r_stats"]
    /\ UNCHANGED <<nonStatsVars, tasks, statVars, frames_expected, failCount, succCount>>

\* process_stats_internal, lines 365-390: an average starts at 0.00 and is
\* assigned sum / frames_success only if frames_success > 0 (a fraction num/den)
Average(sum, success) ==
    IF success > 0 THEN [num |-> sum, den |-> success] ELSE [num |-> 0, den |-> 1]

\* process_stats_internal, lines 373-407: the record built from the ten loads
StatsRecord ==
    [frames_total |-> frames_total, frames_expected |-> frames_expected,
     frames_success |-> frames_success, frames_failed |-> frames_failed,
     sums |-> time_sums,
     avg |-> [st \in Stages |-> Average(time_sums[st], frames_success)]]

\* stats reporter, lines 267-271: process_stats_internal loads the counters and
\* emits one tracing::info! record (the ten loads taken as one step)
ReporterStats ==
    /\ pc["rep"] = "r_stats"
    /\ report' = [report EXCEPT !.emitted = @ + 1, !.record = <<StatsRecord>>,
                                 !.reported = @ + frames_success]
    /\ pc' = [pc EXCEPT !["rep"] = "r_reset"]
    /\ UNCHANGED <<nonStatsVars, tasks, statVars, frames_expected, failCount, succCount>>

\* stats reporter, line 274: SourceStats::reset, lines 109-120 (the ten stores
\* taken as one step)
ReporterReset_KeepsSuccess ==
    /\ pc["rep"] = "r_reset"
    /\ frames_total' = 0
    /\ frames_expected' = 0
    /\ frames_success' = frames_success
    /\ frames_failed' = 0
    /\ time_sums' = ZeroSums
    /\ pc' = [pc EXCEPT !["rep"] = "r_idle"]
    /\ UNCHANGED <<nonStatsVars, tasks, report, failCount, succCount>>
ReporterReset ==
    /\ pc["rep"] = "r_reset"
    /\ frames_total' = 0
    /\ frames_expected' = 0
    /\ frames_success' = 0
    /\ frames_failed' = 0
    /\ time_sums' = ZeroSums
    /\ pc' = [pc EXCEPT !["rep"] = "r_idle"]
    /\ UNCHANGED <<nonStatsVars, tasks, report, failCount, succCount>>

\* a started source whose frame tasks are about to return, and its reporter
StatsInit ==
    /\ InitCommon
    /\ InferOff
    /\ inf_frame = 1
    /\ pc = [t \in Threads |-> IF t = "rep" THEN "r_idle" ELSE "off"]

StatsNext ==
    \/ \E f \in 1..MaxStatFrames, ok \in BOOLEAN : StatsTaskReturn(f, ok)
    \/ \E f \in 1..MaxStatFrames : StatsCountTotal(f)
    \/ \E f \in 1..MaxStatFrames : StatsCountExpected(f)
    \/ \E f \in 1..MaxStatFrames : StatsCountSuccess(f)
    \/ \E f \in 1..MaxStatFrames : StatsAddStats(f)
    \/ \E f \in 1..MaxStatFrames : StatsCountFailed(f)
    \/ ReporterTick
    \/ ReporterStats
    \/ ReporterReset

StatsSpec == StatsInit /\ [][StatsNext]_vars

----------------------------------------------------------------------------
(* SourceProcessor::populate_bboxes / populate_embedding, the publisher of
   inference/source.rs. process_frame's own call of it is commented out
   (yolo.rs line 678, dinov2.rs line 457); it is a pub fn of the source
   processor, run here for a source whose frame tasks are finishing. *)

MaxPublish == 2   \* calls of the publisher

\* lines 413-420: the nested if-lets; the first failure ends the call
PopulateOutcome(producer, serialized, sent) ==
    IF ~producer THEN "no_producer"
    ELSE IF ~serialized THEN "ser_err"
    ELSE IF ~sent THEN "send_err"
    ELSE "sent"

\* lines 420-426: only a failed produce is logged, at warn
PopulateWarns(outcome) == IF outcome = "send_err" THEN 1 ELSE 0

\* lines 411 and 432: the functions return (), whatever happened
PopulateReturn_Propagate(outcome) == IF outcome = "sent" THEN "unit" ELSE "err"
PopulateReturn(outcome) == "unit"

\* populate_bboxes, lines 411-428, and populate_embedding, lines 432-449
\* (the same code but for the "type" of the message)
Populate(kind, producer, serialized, sent) ==
    /\ publisher.calls < MaxPublish
    /\ LET outcome == PopulateOutcome(producer, serialized, sent) IN
         publisher' = [calls |-> publisher.calls + 1,
                       outcome |-> outcome,
                       returned |-> PopulateReturn(outcome),
                       warned |-> publisher.warned + PopulateWarns(outcome)]
    /\ UNCHANGED <<queueVars, item, permits, inf_frame, calls, admitted, pushed, dropped,
                   received, contended, wasReset, raw_inputs, max_batch_size, inferPc,
                   chunkTasks, completed, all_results, supervisorVars, codecVars,
                   pc, tasks, statVars, reportVars, failCount, succCount, stream>>

PublishNext ==
    \/ \E kind \in {"BBOX", "Embedding"}, producer \in BOOLEAN, serialized \in BOOLEAN,
          sent \in BOOLEAN : Populate(kind, producer, serialized, sent)
    \/ \E f \in 1..MaxFrames, ok \in BOOLEAN : StatsTaskReturn(f, ok)
    \/ \E f \in 1..MaxFrames : StatsCountTotal(f)
    \/ \E f \in 1..MaxFrames : StatsCountExpected(f)
    \/ \E f \in 1..MaxFrames : StatsCountSuccess(f)
    \/ \E f \in 1..MaxFrames : StatsAddStats(f)
    \/ \E f \in 1..MaxFrames : StatsCountFailed(f)

PublishSpec == StatsInit /\ [][PublishNext]_vars

----------------------------------------------------------------------------
(* Properties *)

Range(q) == {q[i] : i \in 1..Len(q)}

RECURSIVE IsSubseq(_, _)
IsSubseq(a, b) ==
    IF a = <<>> THEN TRUE
    ELSE IF b = <<>> THEN FALSE
    ELSE IF Head(a) = Head(b) THEN IsSubseq(Tail(a), Tail(b))
    ELSE IsSubseq(a, Tail(b))

NoDuplicates(q) == \A i, j \in 1..Len(q) : i # j => q[i] # q[j]

\* C1: whatever the interleaving of send_sync, send_async and recv, the queue
\* never holds more items than its capacity.
C1_QueueBounded == Len(queue) <= MAX_QUEUE_FRAMES

\* the queue is full after an overflow, with both kinds of send and a recv done
C1_Witness ==
    /\ Len(queue) = MAX_QUEUE_FRAMES
    /\ dropped # <<>>
    /\ received # <<>>
    /\ pc["ps"] = "idle" /\ pc["pa"] = "idle"

\* C2: after k successful send_sync pushes with no recv in between, the queue
\* holds the last min(k, capacity) pushed items in push order, and the drop
\* callback ran exactly once, in push order, for each of the first
\* max(0, k - capacity) items, each run adding one to frames_failed; so it never
\* ran for a push made below capacity.
C2_DropOldest ==
    (received = <<>> /\ pc["dec"] = "idle") =>
        LET k == Len(pushed)
            kept == Min(k, MAX_QUEUE_FRAMES)
        IN  /\ queue = SubSeq(pushed, k - kept + 1, k)
            /\ dropped = SubSeq(pushed, 1, Max(0, k - MAX_QUEUE_FRAMES))
            /\ \A x \in Range(dropped) : failCount[x] = 1
            /\ \A x \in Range(queue) : failCount[x] = 0

\* more pushes than the capacity, none received
C2_Witness ==
    /\ received = <<>>
    /\ pc["dec"] = "idle"
    /\ Len(pushed) > MAX_QUEUE_FRAMES
    /\ dropped # <<>>

\* C7: with one consumer, what recv returns is a subsequence of what was pushed,
\* in push order, without repetition, and never an item given to the drop
\* callback.
C7_Fifo ==
    /\ IsSubseq(received, pushed)
    /\ NoDuplicates(received)
    /\ Range(received) \cap Range(dropped) = {}

C7_Witness ==
    /\ Len(received) >= 2
    /\ dropped # <<>>

\* C3: the per-frame tasks spawned and not yet finished never outnumber the
\* permits of the pool, whatever the queue depth and the interleaving.
C3_ParallelBound == Cardinality(DOMAIN tasks) <= MAX_PARALLEL_FRAME_PROCESSING

\* all permits are held by running tasks while a frame waits in the queue
C3_Witness ==
    /\ Cardinality(DOMAIN tasks) = MAX_PARALLEL_FRAME_PROCESSING
    /\ queue # <<>>
    /\ pc["wrk"] = "w_yield"

\* C4: the k-th call of process_frame offers its frame to the queue exactly when
\* k mod inf_frame = 0, and a frame skipped by the stride adds nothing to
\* frames_failed.  Stated for the runs in which the reporter has not yet reset
\* the counters, where the calls are counted from the first one.
C4_Stride ==
    ~wasReset => \A k \in 1..Len(admitted) :
        /\ admitted[k] <=> (k % inf_frame = 0)
        /\ ~admitted[k] => failCount[k] = 0

\* C5: a frame that process_frame offered is in exactly one place: waiting in the
\* queue, held by the one task processing it, counted once in frames_success, or
\* counted once in frames_failed (contention, overflow or processing error); it is
\* received at most once, so no two tasks get it.
Returned(f) == f < calls \/ (f = calls /\ pc["dec"] = "idle")

InQueue(f) == Cardinality({i \in 1..Len(queue) : queue[i] = f})

InTask(f) == IF f \in DOMAIN tasks /\ tasks[f] # "end" THEN 1 ELSE 0

TimesReceived(f) == Cardinality({i \in 1..Len(received) : received[i] = f})

C5_WitnessOverflow ==
    /\ \E f \in 1..calls : failCount[f] = 1 /\ f \in Range(dropped)
    /\ \E f \in 1..calls : InTask(f) = 1
    /\ \E f \in 1..calls : InQueue(f) = 1

\* C9: send_sync never blocks the decoder callback.  With the lock free it takes
\* the lock, drops the oldest item if the queue is full, appends the item and
\* returns Ok; with the lock held it returns Err at once, leaving the queue and
\* the drop callback untouched, and process_frame then adds exactly one to
\* frames_failed and the frame is never enqueued or processed.
InSendSync == pc["dec"] \in {"ss_try", "s_locked", "s_push", "s_notify", "ss_err"}

DecoderStep ==
    \/ SendSyncTryLock("dec")
    \/ SendDropOldest("dec")
    \/ SendPush("dec")
    \/ SendNotify("dec")
    \/ ProcessFrameSendFailed

C9_NeverBlocked == InSendSync => ENABLED DecoderStep

C9_Discarded ==
    \A x \in contended :
        /\ x \notin Range(pushed)
        /\ x \notin DOMAIN tasks
        /\ Returned(x) => failCount[x] = 1

C9_Step ==
    /\ (pc["dec"] = "ss_try" /\ pc'["dec"] # "ss_try") =>
          IF lockHolder = "none"
          THEN pc'["dec"] = "s_locked" /\ lockHolder' = "dec"
          ELSE /\ pc'["dec"] = "ss_err"
               /\ queue' = queue
               /\ dropped' = dropped
               /\ frames_failed' = frames_failed
    /\ (pc["dec"] = "s_locked" /\ pc'["dec"] # "s_locked") =>
          IF Len(queue) >= MAX_QUEUE_FRAMES
          THEN queue' = Tail(queue) /\ dropped' = Append(dropped, Head(queue))
          ELSE queue' = queue /\ dropped' = dropped
    /\ (pc["dec"] = "s_push" /\ pc'["dec"] # "s_push") =>
          queue' = Append(queue, item["dec"]) /\ pc'["dec"] = "s_notify"
    /\ (pc["dec"] = "s_notify" /\ pc'["dec"] # "s_notify") => pc'["dec"] = "idle"
    /\ (pc["dec"] = "ss_err" /\ pc'["dec"] # "ss_err") =>
          /\ frames_failed' = frames_failed + 1
          /\ pc'["dec"] = "idle"
          /\ queue' = queue
          /\ tasks' = tasks

C9_SendSyncNonBlocking == [](C9_NeverBlocked /\ C9_Discarded) /\ [][C9_Step]_vars

\* a send_sync found the lock held by recv, and its frame was counted as failed
C9_Witness ==
    /\ \E x \in contended : failCount[x] = 1 /\ Returned(x)
    /\ pushed # <<>>

\* C8: no lost wakeup.  Under fair scheduling, whenever the queue is non-empty
\* while the consumer is inside recv, recv returns an item; a notify_one that
\* falls between the consumer's release of the lock and its wait is not lost.
InRecv(t) == pc[t] \in {"rv_lock", "rv_lockwait", "rv_locked", "rv_await", "rv_waiting"}

C8_NoLostWakeup == (queue # <<>> /\ InRecv("cons")) ~> (pc["cons"] = "idle")

\* the consumer found the queue empty and released the lock, and a push with its
\* notify_one completed before the consumer started to wait
C8_Witness ==
    /\ pc["cons"] = "rv_await"
    /\ notifyPermit
    /\ queue # <<>>
    /\ pc["ps"] = "idle" /\ pc["pa"] = "idle"

\* C10: a frame whose processing fails adds exactly one to frames_failed and
\* nothing to frames_success, its permit goes back to the pool when its task
\* ends, and the worker loop goes on: under fair scheduling every frame that
\* waits in the queue or is being processed, whatever failed before it, is
\* displaced from the queue or pulled and processed to the end of its task.
C10_Step ==
    \A f \in DOMAIN tasks :
        /\ (tasks[f] = "cnt_err" /\ tasks'[f] # "cnt_err") =>
              /\ frames_failed' = frames_failed + 1
              /\ frames_success' = frames_success
              /\ tasks'[f] = "end"
        /\ (f \notin DOMAIN tasks') => permits' = permits + 1

WellFormed(c) == chunkTasks[c].resp_len = chunkTasks[c].batch_size * OutputSize

C6_BatchOrder ==
    (inferPc = "ok" /\ \A c \in DOMAIN chunkTasks : WellFormed(c)) =>
        /\ Len(all_results) = Len(raw_inputs)
        /\ \A i \in 1..Len(raw_inputs) : all_results[i] = ModelOutput(raw_inputs[i])

\* infer returned Ok with a batch size above one and several chunks, a later chunk
\* having completed before an earlier one
C6_Witness ==
    /\ inferPc = "ok"
    /\ \A c \in DOMAIN chunkTasks : WellFormed(c)
    /\ max_batch_size > 1
    /\ Len(completed) >= 2
    /\ \E k \in 1..(Len(completed) - 1) : completed[k] > completed[k + 1]

\* C11: before the reporter's first reset, frames_total equals frames_success +
\* frames_failed + in_flight to within one per running per-frame task (and one
\* for a process_frame call under way), in_flight being the offered frames that
\* wait in the queue or are held by a task.
InFlight == Len(queue) + Cardinality(DOMAIN tasks)

Observers == Cardinality(DOMAIN tasks) + (IF pc["dec"] = "idle" THEN 0 ELSE 1)

C11_Accounting ==
    ~wasReset =>
        /\ frames_total - (frames_success + frames_failed + InFlight) <= Observers
        /\ (frames_success + frames_failed + InFlight) - frames_total <= Observers

\* C12: a call of process_frame that has returned has added exactly one to
\* frames_total.  Measured where the calls are the only writers of the counter:
\* no per-frame task has got past process_frame_internal and the reporter has
\* not reset, so frames_total is the number of increments made by the calls.
OnlyCallsCounted ==
    /\ ~wasReset
    /\ \A f \in Range(received) : f \in DOMAIN tasks /\ tasks[f] = "run"

C12_TotalPerCall ==
    (OnlyCallsCounted /\ pc["dec"] = "idle") => frames_total = calls

\* C13: a gateway response that does not hold exactly batch_size * output_size
\* bytes makes infer return an error: the split never runs on such a blob (so
\* nothing beyond its end is read) and infer never returns Ok after one.
SplitRan(c) == chunkTasks[c].state \in {"ok", "fault"}

C13_LengthChecked ==
    /\ \A c \in DOMAIN chunkTasks : SplitRan(c) => WellFormed(c)
    /\ inferPc = "ok" => \A c \in DOMAIN chunkTasks : WellFormed(c)

\* C14: infer sends ceil(n/m) requests; request c carries between 1 and m
\* samples, its shape is the model's input shape with the sample count put in
\* front, its payload is the samples c*m+1 .. of the input in input order, and
\* the payloads together are the inputs, each exactly once.
Requests == [k \in 1..Cardinality(DOMAIN chunkTasks) |-> chunkTasks[k - 1]]

C14_Chunking ==
    inferPc # "call" =>
        LET n == Len(raw_inputs)
            m == max_batch_size
            k == Len(Requests)
        IN  /\ DOMAIN chunkTasks = 0..(k - 1)
            /\ k * m >= n /\ (k - 1) * m < n
            /\ \A c \in 1..k :
                  /\ Requests[c].batch_size >= 1 /\ Requests[c].batch_size <= m
                  /\ Len(Requests[c].request) = Requests[c].batch_size
                  /\ Requests[c].shape = <<Requests[c].batch_size>> \o input_shape
                  /\ \A j \in 1..Len(Requests[c].request) :
                        <<Requests[c].request[j]>> = raw_inputs[(c - 1) * m + j]
            /\ Flatten([c \in 1..k |-> Requests[c].request]) = Flatten(raw_inputs)

\* the inputs do not fill the last of several chunks
C14_Witness ==
    /\ inferPc # "call"
    /\ Len(Requests) >= 2
    /\ Requests[Len(Requests)].batch_size < max_batch_size
    /\ Requests[1].batch_size = max_batch_size

\* C15: once a chunk request has failed, infer does not return Ok: it returns
\* an error and hands no output vector to its caller; and every chunk request
\* is answered at most once, so none was sent again.
ChunkFailed == \E c \in DOMAIN chunkTasks : chunkTasks[c].state = "err"

C15_ErrorSurfaced ==
    /\ (ChunkFailed /\ inferPc \notin {"join", "fault"}) =>
          (inferPc = "err" /\ all_results = <<>>)
    /\ NoDuplicates(completed)
    /\ Len(completed) <= Cardinality(DOMAIN chunkTasks)

\* infer returned an error after one chunk failed and another one succeeded
C15_Witness ==
    /\ inferPc = "err"
    /\ \E c, d \in DOMAIN chunkTasks :
          chunkTasks[c].state = "err" /\ chunkTasks[d].state = "ok"

\* C16: the steps of a per-frame task whose processing failed leave the six
\* running time sums and frames_success as they are: the end of processing
\* adds one to frames_total, the counting step adds one to frames_failed, and
\* nothing else of the statistics changes.
FailedTaskStep(f) ==
    /\ f \in DOMAIN tasks
    /\ \/ tasks[f] = "run" /\ f \in DOMAIN tasks' /\ tasks'[f] = "cnt_err"
       \/ tasks[f] = "cnt_err" /\ f \in DOMAIN tasks' /\ tasks'[f] # "cnt_err"
       \/ tasks[f] = "end" /\ failCount[f] > 0 /\ f \notin DOMAIN tasks'

C16_Step ==
    \A f \in DOMAIN tasks :
        FailedTaskStep(f) =>
            /\ time_sums' = time_sums
            /\ frames_success' = frames_success
            /\ frames_total' = frames_total + (IF tasks[f] = "run" THEN 1 ELSE 0)
            /\ frames_failed' = frames_failed + (IF tasks[f] = "cnt_err" THEN 1 ELSE 0)

C16_FailedFrameEffect == [][C16_Step]_vars

\* a frame's processing failed and was counted while the sums held the times of
\* a frame processed before it
C16_Witness ==
    \E f \in DOMAIN tasks :
        /\ tasks[f] = "end"
        /\ failCount[f] = 1
        /\ time_sums.processing > 0
        /\ frames_success > 0

\* C17: once the SourceProcessor is dropped, no new per-frame task is spawned
\* and the reporter emits no further record.
C17_Step ==
    Dropped =>
        /\ DOMAIN tasks' \subseteq DOMAIN tasks
        /\ ~(pc["rep"] = "r_last" /\ pc'["rep"] = "cancelled")

C17_DropStops == [][C17_Step]_vars

\* the part of C17 the code keeps: a task spawned before the drop is not
\* stopped by it and still releases its permit
C17_TasksGoOn ==
    Dropped => \A f \in DOMAIN tasks :
        ENABLED ((\E ok \in BOOLEAN : TaskFinish(f, ok)) \/ TaskCount(f) \/ TaskEnd(f))

\* C18: once an InferenceModel is dropped, its GPU statistics thread makes no
\* further query and emits no further record.
C18_Step ==
    \A c \in DOMAIN clients :
        ~clients[c].alive => clients'[c].thread = clients[c].thread

C18_TelemetryCancelled == [][C18_Step]_vars

\* C19: in a call of start_models_instances every load request follows the
\* unload request of the same model and carries |sources| instances; an unload
\* request, failed or not, is followed by the load; a failed load is the last
\* request and the call returns an error; a call that returns Ok has unloaded
\* and loaded every configured model once.
StartLog == IF sup.fn = "start_models_instances" THEN sup.log ELSE <<>>

C19_UnloadThenLoad ==
    /\ \A i \in 1..Len(StartLog) :
          /\ StartLog[i].op = "load" =>
                /\ i > 1
                /\ StartLog[i - 1].op = "unload"
                /\ StartLog[i - 1].model = StartLog[i].model
                /\ StartLog[i].instances = Cardinality(app_config.sources)
                /\ ~StartLog[i].ok => (i = Len(StartLog) /\ sup.result = "err")
          /\ StartLog[i].op = "unload" =>
                IF i < Len(StartLog)
                THEN StartLog[i + 1].op = "load"
                ELSE sup.pc = "st_load"
          /\ \A j \in 1..Len(StartLog) :
                (i # j /\ StartLog[i].op = StartLog[j].op) =>
                    StartLog[i].model # StartLog[j].model
    /\ (sup.fn = "start_models_instances" /\ sup.pc = "idle" /\ sup.result = "ok") =>
          \A m \in app_config.models :
              \E i \in 1..Len(StartLog) :
                  StartLog[i].op = "load" /\ StartLog[i].model = m /\ StartLog[i].ok

\* with sources configured, a call went on after a failed unload, and ended
\* with a failed load of the other model
C19_Witness ==
    /\ app_config.sources # {}
    /\ sup.pc = "idle"
    /\ sup.result = "err"
    /\ Len(StartLog) = 4
    /\ ~StartLog[1].ok
    /\ StartLog[2].ok
    /\ ~StartLog[4].ok

\* C20: each registry is written at most once: once it is initialised, no
\* further call changes its contents.
C20_Step ==
    /\ INFERENCE_MODELS.set => INFERENCE_MODELS' = INFERENCE_MODELS
    /\ PROCESSORS.written > 0 => PROCESSORS'.map = PROCESSORS.map

C20_WrittenOnce == [][C20_Step]_vars

\* the half of C20 the code keeps: the model registry is never changed once set
C20_ModelsOnce == [][INFERENCE_MODELS.set => INFERENCE_MODELS' = INFERENCE_MODELS]_vars

----------------------------------------------------------------------------
(* bbox_nms *)

Area(b) == (b[3] - b[1]) * (b[4] - b[2])
Intersection(a, b) ==
    Max(0, Min(a[3], b[3]) - Max(a[1], b[1])) * Max(0, Min(a[4], b[4]) - Max(a[2], b[2]))
\* IoU(a, b) <= t and IoU(a, b) > t for boxes with x1 <= x2 and y1 <= y2, with
\* IoU = intersection / (area a + area b - intersection), cross-multiplied
IoULeq(a, b, t) ==
    Intersection(a, b) * t.den <= t.num * (Area(a) + Area(b) - Intersection(a, b))
IoUAbove(a, b, t) == ~IoULeq(a, b, t)
NmsDone == codecPc = "nms_done"

\* C21: when bbox_nms has returned, any two detections of its output that have
\* the same class have an IoU of at most the threshold.
C21_NmsSeparation ==
    NmsDone =>
        \A i, j \in 1..Len(detections) :
            (i # j /\ detections[i].class = detections[j].class)
                => IoULeq(detections[i].bbox, detections[j].bbox, nms_threshold)

\* C21 witness: bbox_nms has returned two overlapping detections of one class
\* and has suppressed at least one candidate.
C21_Witness ==
    /\ NmsDone
    /\ Len(detections) < Len(candidates.input)
    /\ \E i, j \in 1..Len(detections) :
          /\ i # j
          /\ detections[i].class = detections[j].class
          /\ Intersection(detections[i].bbox, detections[j].bbox) > 0

\* the reference: visit the candidates in the given order and keep one exactly
\* when no kept candidate of its class has an IoU above the threshold with it
RECURSIVE GreedyNms(_, _, _)
GreedyNms(order, kept, t) ==
    IF order = <<>>
    THEN kept
    ELSE LET d == Head(order)
             keep == \A k \in 1..Len(kept) :
                        ~(kept[k].class = d.class /\ IoUAbove(kept[k].bbox, d.bbox, t))
         IN  GreedyNms(Tail(order), IF keep THEN Append(kept, d) ELSE kept, t)

IsPermutation(a, b) ==
    /\ Len(a) = Len(b)
    /\ \E p \in Perms(Len(a)) : \A i \in 1..Len(a) : a[i] = b[p[i]]

\* C22: when bbox_nms has returned, the candidates were visited in an order of
\* non-increasing score, the output is what the greedy class-aware reference
\* keeps in that order, in that order, and it starts with the first candidate
\* visited, which has the highest score.
C22_GreedyReference ==
    NmsDone =>
        /\ IsPermutation(candidates.visited, candidates.input)
        /\ \A i \in 1..(Len(candidates.visited) - 1) :
              candidates.visited[i].score >= candidates.visited[i + 1].score
        /\ detections = GreedyNms(candidates.visited, <<>>, nms_threshold)
        /\ candidates.input # <<>> =>
              /\ detections # <<>>
              /\ detections[1] = candidates.visited[1]
              /\ \A i \in 1..Len(candidates.input) :
                    candidates.input[i].score <= detections[1].score

\* C22 witness: bbox_nms has suppressed a candidate and has kept two candidates
\* of different classes whose IoU is above the threshold.
C22_Witness ==
    /\ NmsDone
    /\ Len(detections) < Len(candidates.input)
    /\ \E i, j \in 1..Len(detections) :
          /\ detections[i].class # detections[j].class
          /\ IoUAbove(detections[i].bbox, detections[j].bbox, nms_threshold)

----------------------------------------------------------------------------
(* postprocess *)

\* the byte length of an [F, A] tensor: 2 bytes per FP16 element, 4 per FP32
TensorBytes(shape, p) == shape[1] * shape[2] * (IF p = "FP16" THEN 2 ELSE 4)
PostValidated == codecPc \notin {"off", "post_call"}
BadOutput ==
    \/ Len(output_shape) # 2
    \/ raw_results.len # TensorBytes(output_shape, precision)

BoxUnit == 2 * calculate_letterbox(frame.height, frame.width, TARGET_SIZE).inv_den

\* C24: every detection postprocess returns has a score in [0, 1] and a box
\* with x1 < x2, y1 < y2 that lies inside the original frame.
C24_DetectionsInFrame ==
    codecResult = "ok" =>
        \A i \in 1..Len(detections) :
            LET d == detections[i]
            IN  /\ d.score >= 0
                /\ d.score <= 2
                /\ d.bbox[1] < d.bbox[3]
                /\ d.bbox[2] < d.bbox[4]
                /\ d.bbox[1] >= 0
                /\ d.bbox[2] >= 0
                /\ d.bbox[3] <= frame.width * BoxUnit
                /\ d.bbox[4] <= frame.height * BoxUnit

----------------------------------------------------------------------------
(* letterbox *)

Within1(v, c) == Abs(v.num - c * v.den) <= v.den
LetterboxDone == codecPc = "lb_done"

\* C25: post-processing subtracts and divides by the pads and the scale with
\* which pre-processing laid the frame out, and a corner inside the frame that
\* is carried through the letterbox and back comes out within 1 pixel.
C25_LetterboxInverted ==
    LetterboxDone =>
        /\ letterbox.post = letterbox.pre
        /\ Within1(letterbox.back[1], letterbox.point[1])
        /\ Within1(letterbox.back[2], letterbox.point[2])

\* the round trip alone: the corner comes back within 1 pixel
C25_RoundTrip ==
    LetterboxDone =>
        /\ Within1(letterbox.back[1], letterbox.point[1])
        /\ Within1(letterbox.back[2], letterbox.point[2])

\* in processing/yolo.rs the corner comes back exactly
C25_YoloExact ==
    (LetterboxDone /\ letterbox.variant = "yolo.rs") =>
        /\ letterbox.back[1] = Rat(letterbox.point[1], 1)
        /\ letterbox.back[2] = Rat(letterbox.point[2], 1)

----------------------------------------------------------------------------
(* preprocess *)

PreDone == codecPc = "done"

\* C26: preprocess returns an error for a frame whose height is 0 or whose
\* width is 0, and never a tensor.
C26_EmptyFrameRejected ==
    (PreDone /\ (frame.height = 0 \/ frame.width = 0)) => codecResult = "err"

\* C27: preprocess returns an error exactly when the frame's byte length
\* differs from H*W*3, and otherwise a tensor of 3*T*T*sizeof(precision)
\* bytes, 2 bytes per FP16 element and 4 per FP32 element.
C27_PreprocessLength ==
    PreDone =>
        IF frame.len # frame.height * frame.width * 3
        THEN codecResult = "err"
        ELSE /\ codecResult = "ok"
             /\ pre_frame.len = 3 * TARGET_SIZE * TARGET_SIZE
                                  * (IF precision = "FP16" THEN 2 ELSE 4)

\* C27 witness: preprocess has returned the tensor of a frame that it
\* resampled into the letterbox.
C27_Witness ==
    /\ PreDone
    /\ codecResult = "ok"
    /\ frame.height > 1
    /\ frame.width > frame.height
    /\ pre_frame.written > 0

\* C29: at every stats tick the reporter emits exactly one record in which each
\* average equals sum_stage / max(1, frames_success) of the counter values it
\* read (with frames_success = 0, the sum itself), and then sets all ten
\* counters to zero.
RecordAsClaimed(r) ==
    \A st \in Stages :
        r.avg[st].num * Max(1, r.frames_success) = r.sums[st] * r.avg[st].den

AllTenZero(total, expected, success, failed, sums) ==
    /\ total = 0 /\ expected = 0 /\ success = 0 /\ failed = 0
    /\ sums = ZeroSums

\* one record per tick, and the reset that follows it
OneRecordThenReset ==
    /\ (pc'["rep"] = "r_idle" => report'.emitted = report'.ticks)
    /\ (pc["rep"] = "r_reset" /\ pc'["rep"] = "r_idle"
          => AllTenZero(frames_total', frames_expected', frames_success', frames_failed',
                        time_sums'))

C29_Step ==
    /\ \A i \in DOMAIN report'.record : RecordAsClaimed(report'.record[i])
    /\ OneRecordThenReset

C29_ReporterRecord == [][C29_Step]_vars

\* the part of C29 the reporter does keep
C29_TickAndReset == [][OneRecordThenReset]_vars

\* C28: a failure of the result publisher (no producer, a serialization error
\* or a send error) never fails the frame: the publisher returns without an
\* error and moves no counter and no task, and a frame whose processing
\* returned Ok is counted in frames_success while frames_failed stays as it was.
PublisherFailed == publisher.outcome \in {"no_producer", "ser_err", "send_err"}

C28_Step ==
    /\ publisher' # publisher
          => /\ publisher'.returned = "unit"
             /\ UNCHANGED <<tasks, statVars, frames_expected, failCount, succCount>>
    /\ \A f \in DOMAIN tasks :
          PublisherFailed /\ tasks[f] = "cnt_ok" /\ tasks'[f] # "cnt_ok"
             => /\ succCount'[f] = succCount[f] + 1
                /\ frames_success' = frames_success + 1
                /\ frames_failed' = frames_failed

C30_FifoPull ==
    /\ \A i, j \in DOMAIN received : i < j => received[i] < received[j]
    /\ \A i \in DOMAIN received, j \in DOMAIN queue : received[i] < queue[j]
    /\ \A f \in DOMAIN tasks : f \in Range(received)

\* C30 witness: frame g, admitted and pulled after frame f, has finished and is
\* counted while the task of f has not finished processing
C30_Witness ==
    /\ MAX_PARALLEL_FRAME_PROCESSING >= 2
    /\ \E f, g \in Range(received) :
          /\ f < g
          /\ f \in DOMAIN tasks
          /\ tasks[f] = "run"
          /\ g \notin DOMAIN tasks
          /\ succCount[g] + failCount[g] = 1

\* C31: the reporter's snapshot and reset are not atomic with the tasks'
\* updates. The records never report more successes than the tasks counted (a
\* counter read is zeroed before it is read again), but they can report fewer:
\* an increment made between the read and the reset is in no record, and a reset
\* between a task's frames_success increment and its add_stats leaves time sums
\* above zero with frames_success = 0.
RECURSIVE SumOver(_, _)
SumOver(fn, S) ==
    IF S = {} THEN 0
    ELSE LET x == CHOOSE y \in S : TRUE IN fn[x] + SumOver(fn, S \ {x})

SuccessesCounted == SumOver(succCount, DOMAIN succCount)

C31_NeverOverReported ==
    /\ report.reported <= SuccessesCounted
    /\ pc["rep"] # "r_reset" => report.reported + frames_success <= SuccessesCounted

\* C31 witness: every task has ended and the reporter has read and reset; one
\* frames_success increment is in no record and the counter is back at zero,
\* while the time sums added after the reset stand above zero
C31_Witness ==
    /\ pc["rep"] = "r_idle"
    /\ report.emitted >= 1
    /\ \A f \in DOMAIN tasks : tasks[f] = "end"
    /\ frames_success = 0
    /\ report.reported < SuccessesCounted
    /\ \A st \in Stages : time_sums[st] > 0

\* C32: the worker loop takes a frame from the queue only while it holds a
\* permit it has just acquired, and the task spawned for the frame gets that
\* permit (none is released or taken at the spawn); while the running tasks hold
\* all the permits the loop is not in recv and no frame is received; a failed
\* try_acquire_owned leads to yield_now and back to the next try.
WorkerInRecv == pc["wrk"] \in {"rv_lock", "rv_lockwait", "rv_locked", "rv_await", "rv_waiting"}

AllPermitsInTasks == Cardinality(DOMAIN tasks) = MAX_PARALLEL_FRAME_PROCESSING

C32_Step ==
    /\ received' # received
          => /\ WorkerInRecv
             /\ ~AllPermitsInTasks
             /\ permits' = permits
             /\ DOMAIN tasks' = DOMAIN tasks \cup {received'[Len(received')]}
             /\ received'[Len(received')] \notin DOMAIN tasks
    /\ WorkerInRecv' /\ ~WorkerInRecv
          => /\ pc["wrk"] = "w_acquire"
             /\ permits > 0
             /\ permits' = permits - 1
    /\ AllPermitsInTasks => ~WorkerInRecv /\ permits = 0 /\ received' = received
    /\ pc["wrk"] = "w_acquire" /\ permits = 0 /\ pc'["wrk"] # pc["wrk"]
          => pc'["wrk"] = "w_yield"
    /\ pc["wrk"] = "w_yield" /\ pc'["wrk"] # pc["wrk"] => pc'["wrk"] = "w_acquire"

C32_PullOnlyWithPermit == [][C32_Step]_vars

\* C32 witness: the running tasks hold every permit, the loop has failed to
\* acquire one and yielded, and frames pushed since wait in the queue
C32_Witness ==
    /\ AllPermitsInTasks
    /\ \A f \in DOMAIN tasks : tasks[f] = "run"
    /\ permits = 0
    /\ pc["wrk"] = "w_yield"
    /\ queue # <<>>
    /\ \A i \in DOMAIN queue : \A f \in DOMAIN tasks : f < queue[i]

\* C33: once the length check of postprocess has passed for a shape [F, A],
\* every element index the anchor loop reads is below F * A, for every declared
\* shape, those with F < 4 included.
LengthCheckPassed ==
    /\ Len(output_shape) = 2
    /\ codecPc \notin {"off", "post_call"}
    /\ codecResult # "err"

C33_ReadsInBounds ==
    LengthCheckPassed => reads.max < output_shape[1] * output_shape[2]

\* the part of C33 that holds: shapes of four features or more
C33_ReadsInBoundsFromFour ==
    LengthCheckPassed /\ output_shape[1] >= 4
        => /\ reads.max < output_shape[1] * output_shape[2]
           /\ ~reads.oob

\* C34: for every anchor, postprocess appends a candidate before NMS if and
\* only if the maximum of the anchor's class scores is >= conf_threshold; the
\* candidate's score is that maximum and its class the lowest index attaining
\* it, also when all class scores are zero or negative.
ClassScore(a, c) == raw_results.data[(4 + c) * output_shape[2] + a + 1]

BestScore(a) ==
    CHOOSE m \in {ClassScore(a, c) : c \in 0..(output_shape[1] - 5)} :
        \A c \in 0..(output_shape[1] - 5) : ClassScore(a, c) <= m

BestClass(a) ==
    CHOOSE c \in 0..(output_shape[1] - 5) :
        /\ ClassScore(a, c) = BestScore(a)
        /\ \A d \in 0..(c - 1) : ClassScore(a, d) < BestScore(a)

RECURSIVE ExpectedCandidates(_)
ExpectedCandidates(a) ==
    IF a >= output_shape[2] THEN <<>>
    ELSE (IF BestScore(a) >= pred_conf_threshold
          THEN <<[class |-> BestClass(a), score |-> BestScore(a)]>>
          ELSE <<>>) \o ExpectedCandidates(a + 1)

JustDecoded ==
    /\ codecPc \in {"nms_sort", "post_return"}
    /\ Len(output_shape) = 2
    /\ output_shape[1] >= 5

C34_ArgmaxThreshold ==
    JustDecoded =>
        /\ Len(detections) = Len(ExpectedCandidates(0))
        /\ \A i \in 1..Len(detections) :
              /\ detections[i].class = ExpectedCandidates(0)[i].class
              /\ detections[i].score = ExpectedCandidates(0)[i].score

\* the part of C34 that holds: anchors whose best class score is above zero
C34_ArgmaxThresholdPositive ==
    JustDecoded /\ (\A a \in 0..(output_shape[2] - 1) : BestScore(a) > 0)
        => /\ Len(detections) = Len(ExpectedCandidates(0))
           /\ \A i \in 1..Len(detections) :
                 /\ detections[i].class = ExpectedCandidates(0)[i].class
                 /\ detections[i].score = ExpectedCandidates(0)[i].score

\* C35: for every frame with H >= 1 and W >= 1, calculate_letterbox yields
\* new_W = floor(W*T/max(H,W)) and new_H = floor(H*T/max(H,W)), both in 0..T,
\* pad_x = floor((T - new_W)/2), pad_y = floor((T - new_H)/2); every offset
\* preprocess writes is inside the T*T plane and every byte it reads inside
\* the H*W*3 frame buffer.
PrePassed == codecPc = "done" /\ codecResult = "ok" /\ frame.height >= 1 /\ frame.width >= 1

PreIndicesInside ==
    /\ pre_frame.lb.new_width \in 0..TARGET_SIZE
    /\ pre_frame.lb.new_height \in 0..TARGET_SIZE
    /\ pre_frame.lb.pad_x = (TARGET_SIZE - pre_frame.lb.new_width) \div 2
    /\ pre_frame.lb.pad_y = (TARGET_SIZE - pre_frame.lb.new_height) \div 2
    /\ pre_frame.last_dst < TARGET_SIZE * TARGET_SIZE
    /\ pre_frame.last_src < frame.height * frame.width * 3

C35_LetterboxGeometry ==
    PrePassed =>
        /\ pre_frame.lb.new_width
              = (frame.width * TARGET_SIZE) \div Max(frame.height, frame.width)
        /\ pre_frame.lb.new_height
              = (frame.height * TARGET_SIZE) \div Max(frame.height, frame.width)
        /\ PreIndicesInside

\* the part of C35 that holds: the sizes are in range and the indices inside
C35_IndicesInside == PrePassed => PreIndicesInside

----------------------------------------------------------------------------
(* preprocess_bboxes *)

WellFormedFrame == frame.len = frame.height * frame.width * 3
CropCalled == crop.pc # "off" /\ crop.bbox # <<>>

\* C36: in preprocess_bboxes every byte range read from the frame buffer lies
\* inside it (on a frame whose data is height * width * 3 bytes no slice is
\* refused), a box whose clamped width or height is 0 makes the call return
\* an error with nothing read for it, and a call that succeeds returns exactly
\* one tensor per box, in box order, each of a crop inside the frame.
C36_CropClamped ==
    /\ CropCalled =>
          LET c == ClampBox(crop.bbox, frame)
          IN  /\ (c.bbox_width = 0 \/ c.bbox_height = 0)
                    => /\ crop.outcome = "err"
                       /\ crop.read.hi = -1
              /\ crop.read.hi # -1
                    => /\ 0 <= crop.read.lo
                       /\ crop.read.lo < crop.read.hi
                       /\ crop.outcome # "panic" => crop.read.hi <= frame.len
                       /\ WellFormedFrame => crop.read.hi <= frame.len
    /\ WellFormedFrame => crop.outcome # "panic"
    /\ crop.outcome = "ok" => Len(crop.results) = crop.n
    /\ crop.outcome \in {"err", "panic"} => Len(crop.results) < crop.n
    /\ \A k \in 1..Len(crop.results) :
          /\ crop.results[k].box = k
          /\ crop.results[k].width \in 1..frame.width
          /\ crop.results[k].height \in 1..frame.height

\* C36 witness: a call on a whole frame of MaxCropDim pixels a side has
\* returned MaxBoxes tensors, the last one of a box that reached beyond the
\* frame on every side and was read up to the last byte of the data.
C36_Witness ==
    /\ crop.outcome = "ok"
    /\ Len(crop.results) = MaxBoxes
    /\ frame.height = MaxCropDim /\ frame.width = MaxCropDim
    /\ WellFormedFrame
    /\ crop.bbox = <<Halves(-1), Halves(-1), Halves(2 * MaxCropDim + 3),
                     Halves(2 * MaxCropDim + 3)>>
    /\ crop.read = [lo |-> 0, hi |-> frame.len]

----------------------------------------------------------------------------
(* the stream receiver *)

CurrentDecode == stream.dec[stream.cur]

\* the keepalive task of the session has returned: it saw the backend not
\* streaming, or streaming under another pid, and the select has not run yet
KeepaliveObserved == stream.mon = "select" /\ stream.ka = "returned"

\* a free decode slot is there whenever the monitor starts a session
SlotsSuffice == stream.mon = "top" => \E s \in Slots : Reusable(s)

\* C38 as stated: whenever the keepalive task has observed that the backend is
\* not streaming or that the pid changed, the stop signal of the session is
\* set: the select that follows leaves it set.
C38_StopSignalSet ==
    [][(KeepaliveObserved /\ stream'.mon # "select")
          => stream'.dec[stream.cur].stop_signal]_vars

\* the select runs after the keepalive task returned: unless the decode task
\* has finished too, the stop signal is stored and the cleanup wait begins
SelectStores ==
    (/\ KeepaliveObserved
     /\ CurrentDecode.pc # "done"
     /\ stream'.mon # stream.mon)
        => /\ stream'.mon = "cleanup"
           /\ stream'.dec[stream.cur].stop_signal

\* a decode loop that takes its next packet with the stop signal set is left
ExitsAtNextPacket ==
    \A s \in Slots :
        (/\ stream.dec[s].stop_signal
         /\ stream.dec[s].pc \in {"first", "main"}
         /\ stream'.dec[s] # stream.dec[s])
            => stream'.dec[s].pc \in {"done", "ended"}

\* C38: when the keepalive task has observed that the backend is not
\* streaming or that the pid changed, the select stores the stop signal unless
\* the decode task has finished by itself; a decode loop exits at its next
\* packet once the signal is set; a session calls source_stopped at most once;
\* the stop signal is only ever set after the keepalive task returned;
\* consume_stream returns (when the decode task is done or the 5-second wait
\* is over), the monitor then sleeps STREAM_TIMEOUT and turns its loop again;
\* the monitor task, once started, never ends.
C38_ReceiverStops ==
    /\ [][SelectStores /\ ExitsAtNextPacket]_vars
    /\ [](\A s \in Slots : stream.dec[s].stopped <= 1)
    /\ [](CurrentDecode.stop_signal => stream.ka = "returned")
    /\ [][stream.mon # "off" => stream'.mon # "off"]_vars
    /\ KeepaliveObserved ~> (CurrentDecode.stop_signal \/ CurrentDecode.pc = "done")
    /\ KeepaliveObserved ~> stream.mon = "retry"
    /\ stream.mon = "retry" ~> stream.mon = "top"

\* C38 witness: the keepalive task returned, the stop signal was stored, the
\* decode loop was left, source_stopped called once, and consume_stream has
\* returned to the monitor, which sleeps before its retry.
C38_Witness ==
    /\ stream.mon = "retry"
    /\ stream.ka = "returned"
    /\ CurrentDecode.stop_signal
    /\ CurrentDecode.pc = "done"
    /\ CurrentDecode.stopped = 1

----------------------------------------------------------------------------
(* the permits of the parallelism Semaphore *)

\* the permit the worker loop took and has not yet moved into a task
WorkerHeld == IF WorkerInRecv THEN 1 ELSE 0

\* a step that takes a per-frame task away gives one permit back, and no other
\* step gives one back
ReleasedAtTaskEnd ==
    /\ permits' > permits
          => /\ permits' = permits + 1
             /\ Cardinality(DOMAIN tasks') = Cardinality(DOMAIN tasks) - 1
    /\ DOMAIN tasks' # DOMAIN tasks /\ DOMAIN tasks' \subseteq DOMAIN tasks
          => permits' = permits + 1

\* C37: the available permits, the permit the worker loop holds while it
\* awaits recv and the permits the running per-frame tasks hold add up to
\* MAX_PARALLEL_FRAME_PROCESSING in every state; a permit comes back exactly
\* when its task ends (after counting success or failure, or by a panic) and
\* only then; and as every task terminates, a worker loop that found no permit
\* gets one again.
C37_PermitConservation ==
    /\ [](permits + WorkerHeld + Cardinality(DOMAIN tasks)
             = MAX_PARALLEL_FRAME_PROCESSING)
    /\ [](permits \in 0..MAX_PARALLEL_FRAME_PROCESSING)
    /\ [][ReleasedAtTaskEnd]_vars
    /\ pc["wrk"] = "w_yield" ~> WorkerInRecv

\* C37 witness: a per-frame task has panicked (its frame was received, is with
\* no task and was counted nowhere), another task runs, and the worker loop
\* holds a permit while it awaits recv.
C37_Witness ==
    /\ WorkerInRecv
    /\ DOMAIN tasks # {}
    /\ \E f \in Range(received) :
          /\ f \notin DOMAIN tasks
          /\ succCount[f] = 0
          /\ failCount[f] = 0
    /\ permits = MAX_PARALLEL_FRAME_PROCESSING - 1 - Cardinality(DOMAIN tasks)

====
